---- MODULE Spec2Model ----
(***************************************************************************)
(* Model of the WACE coordination core: the transaction lifecycle and      *)
(* fan-out coordinator (wacecore.go), the plugin manager (pluginmanager)   *)
(* and the parts of the configuration store (configstore.go) they read.    *)
(* Goroutines are processes; an unbuffered channel send/receive is one     *)
(* joint step of the sender and the receiver.                              *)
(***************************************************************************)
EXTENDS Integers, Sequences, FiniteSets, TLC

(***************************************************************************)
(* Bounds of the model.                                                    *)
(***************************************************************************)
\* Analyze calls that launch a dispatch round (callPlugins goroutines).
MaxRounds == 2
\* transactionSync records ever allocated (InitTransaction, or Analyze on
\* a transaction id that has no entry).
MaxSync == 2
\* Calls made by a caller that keeps no order.
MaxCalls == 3
\* Model plugins, and decision plugins, in a configuration file.
MaxModels == 2
MaxDecisions == 1

(***************************************************************************)
(* configstore: ModelPluginType, String, StringToPluginType.               *)
(***************************************************************************)
RequestHeaders == 0
RequestBody == 1
AllRequest == 2
ResponseHeaders == 3
ResponseBody == 4
AllResponse == 5
Everything == 6

PluginTypes == RequestHeaders..Everything

\* The value StringToPluginType returns beside its error.
InvalidType == -1

\* String as it would be with the name of AllRequest in the branch of
\* AllResponse.
StringAllRequestTwice(t) ==
    CASE t = RequestHeaders  -> "RequestHeaders"
      [] t = RequestBody     -> "RequestBody"
      [] t = AllRequest      -> "AllRequest"
      [] t = ResponseHeaders -> "ResponseHeaders"
      [] t = ResponseBody    -> "ResponseBody"
      [] t = AllResponse     -> "AllRequest"
      [] OTHER               -> "Everything"

\* func (t ModelPluginType) String(): the default branch answers every
\* value that is not one of the first six.
String(t) ==
    CASE t = RequestHeaders  -> "RequestHeaders"
      [] t = RequestBody     -> "RequestBody"
      [] t = AllRequest      -> "AllRequest"
      [] t = ResponseHeaders -> "ResponseHeaders"
      [] t = ResponseBody    -> "ResponseBody"
      [] t = AllResponse     -> "AllResponse"
      [] OTHER               -> "Everything"

\* StringToPluginType: [t, err].
StringToPluginType(textType) ==
    CASE textType = "RequestHeaders"  -> [t |-> RequestHeaders, err |-> FALSE]
      [] textType = "RequestBody"     -> [t |-> RequestBody, err |-> FALSE]
      [] textType = "AllRequest"      -> [t |-> AllRequest, err |-> FALSE]
      [] textType = "ResponseHeaders" -> [t |-> ResponseHeaders, err |-> FALSE]
      [] textType = "ResponseBody"    -> [t |-> ResponseBody, err |-> FALSE]
      [] textType = "AllResponse"     -> [t |-> AllResponse, err |-> FALSE]
      [] textType = "Everything"      -> [t |-> Everything, err |-> FALSE]
      [] OTHER                        -> [t |-> InvalidType, err |-> TRUE]

\* The keys of a per-transaction channel map: t.String() of a segment type.
TypeNames == {String(t) : t \in PluginTypes}

(***************************************************************************)
(* The configuration the store holds after SetConfig (ConfigStore), and    *)
(* what loading each plugin does at construction.                          *)
(*   L   sync, local, RequestHeaders          E   sync, local, Everything  *)
(*   R   sync, remote, RequestHeaders         A   async, RequestHeaders    *)
(*   X / XR / XA  as L / R / A, but the plugin cannot be loaded            *)
(*   U   named by callers, absent from the configuration                   *)
(***************************************************************************)
ModelPlugins ==
    [id \in {"L", "E", "R", "A", "X", "XR", "XA"} |->
        [PluginType |-> IF id = "E" THEN Everything ELSE RequestHeaders,
         Mode       |-> IF id \in {"A", "XA"} THEN "async" ELSE "sync",
         Remote     |-> id \in {"R", "XR"},
         Weight     |-> CASE id = "L" -> 1 [] id = "E" -> 2 [] id = "R" -> 3
                          [] id = "A" -> 4 [] OTHER -> 5]]

ConfigIds == DOMAIN ModelPlugins

DecisionPlugins == {"D", "DX"}

\* What happens when New loads the plugin: "ok", "open" (plugin.Open
\* fails), "lookup" (a symbol is missing or has the wrong type), "init"
\* (the init function returns an error).
ModelLoad ==
    [id \in ConfigIds |->
        CASE id = "X" -> "open" [] id = "XR" -> "init" [] id = "XA" -> "lookup"
          [] OTHER -> "ok"]

DecisionLoad == [id \in DecisionPlugins |-> IF id = "DX" THEN "init" ELSE "ok"]

\* ConfigStore.IsAsync.
IsAsync(id) == ModelPlugins[id].Mode = "async"

\* New, one pass of the model plugin loop for a plugin configured as plug:
\* does it reach pm.modelPlugins[data.ID] = ... ?  An async or remote
\* plugin is skipped on every failure.  A sync local plugin's init error is
\* overwritten by the lookup of Process that follows it, so only a failed
\* open or lookup skips it.
RegistersModel(plug, load) ==
    IF plug.Mode = "async" \/ plug.Remote
    THEN load = "ok"
    ELSE load \in {"ok", "init"}

\* The same pass: does it reach pm.modelProcessFunc[data.ID] = process ?
StoresProcessFunc(plug, load) ==
    /\ ~(plug.Mode = "async" \/ plug.Remote)
    /\ load \in {"ok", "init"}

\* New, one pass of the decision plugin loop: every failure skips.
RegistersDecision(load) == load = "ok"

\* Is the plugin registered in pm.modelPlugins of the coordinator?
ModelRegistered(id) == RegistersModel(ModelPlugins[id], ModelLoad[id])

\* pm.modelPlugins after New: id -> accepted segment type.
LoadedModels == {id \in ConfigIds : ModelRegistered(id)}

\* pm.modelProcessFunc after New: only the sync local branch of the loop
\* stores a process function.
modelProcessFunc ==
    {id \in LoadedModels : ~(ModelPlugins[id].Mode = "async" \/ ModelPlugins[id].Remote)}

\* New, the decision plugin loop: pm.decisionCheckFunc after New.
LoadedDecisions == {id \in DecisionPlugins : DecisionLoad[id] = "ok"}

(***************************************************************************)
(* Inputs the callers draw from.                                           *)
(***************************************************************************)
TIDs == {"t1", "t2"}

\* WAF score maps passed to CheckTransaction.
WafParams == {"waf1", "waf2"}

\* What a model plugin's Process function returns for a payload: a
\* probability (the plugin is a function of its input: the k-th Analyze
\* call carries payload k, and a plugin that succeeds answers k) or an
\* error.
PluginReturns(payload) ==
    {[prob |-> payload, err |-> FALSE], [prob |-> 0, err |-> TRUE]}

\* A key with no value in the result store, a segment with no channel, a
\* transaction with no transactionSync.
None == 0

VARIABLES
    natOK,                \* nats.Connect succeeded in New
    analysisMap,          \* tid -> transactionSync record id, or None
    tsCounter,            \* transactionSync record id -> Counter
    nSync,                \* transactionSync records allocated so far
    results,              \* pm.results: tid -> present?, model -> result
    syncModelsChannels,   \* tid -> present?, segment name -> channel
    asyncModelsChannels,  \* tid -> present?, segment name -> channel
    rounds,               \* callPlugins goroutines and their async waiters
    nRounds,              \* rounds launched so far
    tasks,                \* goroutines started by a round, not yet run
    senders,              \* goroutines blocked sending a ModelStatus
    requests,             \* bus: messages on subject <modelId>
    replies,              \* bus: messages on subject <modelId>/results
    closedSync,           \* sync status channels that were closed
    closedAsync,          \* async status channels that were closed
    check,                \* tid -> the CheckTransaction call in progress
    phase,                \* tid -> the caller's last completed lifecycle step
    panicked,             \* a goroutine panicked: the process is gone
    nCalls,               \* calls made so far by a caller that keeps no order
    lastCall,             \* the last of them: the function and its arguments
    config,               \* configstore: the ConfigStore that Get returns
    inConf,               \* the ConfigFileData the caller passes to SetConfig
    setErr,               \* what the last SetConfig call returned
    adds,                 \* addTransactionAnalysis calls between LoadOrStore and add
    proc,                 \* the last call of Process made from outside callPlugins
    pm                    \* the registries of a PluginManager that New is building

\* The state of the library, and all variables.
state == <<natOK, analysisMap, tsCounter, nSync, results, syncModelsChannels,
           asyncModelsChannels, rounds, nRounds, tasks, senders, requests,
           replies, closedSync, closedAsync, check, phase, panicked>>
\* The configuration store and its caller.
conf == <<config, inConf, setErr>>
vars == <<state, nCalls, lastCall, conf, adds, proc, pm>>

RoundIds == 1..MaxRounds
SyncIds == 1..MaxSync

\* An empty per-transaction map of channels, and an absent one.
NoChannels == [present |-> FALSE, ch |-> [n \in TypeNames |-> None]]

\* An empty result map (new(sync.Map)), and an absent one.
NoResults == [present |-> FALSE, val |-> [m \in ConfigIds |-> None]]
EmptyResults == [present |-> TRUE, val |-> [m \in ConfigIds |-> None]]

\* A round: the locals of callPlugins and of its async waiter (pc .. rmCh),
\* and a record of what happened to it, which the program does not keep:
\* the models it dispatched, the <<model, probability>> of the statuses
\* without error it received, the <<model, error>> of the others, and how many of its sync remote requests
\* failed to publish, went to a subject nobody listens on, or were answered
\* by a message the listener could not parse.
NoRound ==
    [pc |-> "unused", tid |-> "", born |-> None, seg |-> InvalidType,
     payload |-> 0, models |-> <<>>,
     syncCounter |-> 0, asyncCounter |-> 0, recvd |-> 0, doneCh |-> None,
     apc |-> "none", arecvd |-> 0, rmCh |-> None,
     disp |-> {}, okRecv |-> {}, errRecv |-> {}, pubFailed |-> 0,
     noSub |-> 0, unparsed |-> 0]

\* new(PluginManager) with its four maps made: no plugin tried yet.  load
\* records, for each plugin New has tried, what loading it did.
NoPM == [load |-> <<>>, modelPlugins |-> {}, modelProcessFunc |-> {},
         decisionPlugins |-> {}, decisionCheckFunc |-> {}, done |-> FALSE]

\* A direct call of PluginManager.Process: its arguments, and whether it
\* called the plugin's process function; n tells a call from the one before.
NoProc == [n |-> 0, model |-> "", seg |-> InvalidType, tid |-> "", ch |-> None,
           invoked |-> FALSE]

NoInput == [TransactionId |-> "", Results |-> <<>>, ModelWeight |-> <<>>,
            WAFdata |-> ""]

\* A call of an exported function: its name, the transaction id, and for
\* Analyze the segment name and the model list.
Call(op, t, name, models) == [op |-> op, tid |-> t, name |-> name, models |-> models]
NoCall == Call("", "", "", <<>>)

\* The locals of a CheckTransaction call; prevN, which the program does not
\* keep, is the number of rounds launched when the transaction's previous
\* call returned, and added the number of times the call has added 1 to
\* the blocked-request counter.
NoCheck ==
    [pc |-> "idle", sync |-> None, i |-> 0, d |-> "", waf |-> "",
     startN |-> 0, invoked |-> 0, input |-> NoInput, res |-> FALSE,
     err |-> "nil", dret |-> [res |-> FALSE, err |-> "nil"], prevN |-> 0,
     added |-> 0]

InitCore ==
    /\ natOK \in BOOLEAN
    /\ analysisMap = [t \in TIDs |-> None]
    /\ tsCounter = [s \in SyncIds |-> 0]
    /\ nSync = 0
    /\ results = [t \in TIDs |-> NoResults]
    /\ syncModelsChannels = [t \in TIDs |-> NoChannels]
    /\ asyncModelsChannels = [t \in TIDs |-> NoChannels]
    /\ rounds = [r \in RoundIds |-> NoRound]
    /\ nRounds = 0
    /\ tasks = {}
    /\ senders = {}
    /\ requests = {}
    /\ replies = {}
    /\ closedSync = {}
    /\ closedAsync = {}
    /\ check = [t \in TIDs |-> NoCheck]
    /\ nCalls = 0
    /\ lastCall = NoCall
    /\ phase = [t \in TIDs |-> "new"]
    /\ panicked = FALSE
    /\ adds = {}
    /\ proc = NoProc
    /\ pm = NoPM

(***************************************************************************)
(* configstore: checkLogging, checkConfig, SetConfig.                      *)
(***************************************************************************)
\* The files SetConfig looks at: whether os.Stat finds the path, and
\* whether the process can write or create it.
FileSystem ==
    [p \in {"/dev/null", "./wace.log", "/usr/wace.log", "/etc/passwd",
            "../_plugins/trivial.so", "../_plugins/nonexistent.so"} |->
        [exists   |-> p \in {"/dev/null", "/etc/passwd", "../_plugins/trivial.so"},
         writable |-> p \in {"/dev/null", "./wace.log"}]]

\* os.Stat(path) returns no error.
Stat(path) == path \in DOMAIN FileSystem /\ FileSystem[path].exists

\* ioutil.WriteFile(path, d, 0644) returns no error.
WriteFile(path) == path \in DOMAIN FileSystem /\ FileSystem[path].writable

\* The names lg.StringToLogLevel knows, and what it returns: a level, with
\* an error for any other name; the level beside the error is the
\* library's choice.
LogLevels == {"ERROR", "WARN", "INFO", "DEBUG"}
StringToLogLevel(text) ==
    IF text \in LogLevels THEN {[level |-> text, err |-> FALSE]}
    ELSE {[level |-> l, err |-> TRUE] : l \in LogLevels}

\* new(ConfigStore): the zero value of every field.
NewConfigStore ==
    [LogPath |-> "", LogLevel |-> "ERROR", ModelPlugins |-> <<>>,
     DecisionPlugins |-> <<>>, NatsURL |-> ""]

\* checkLogging: the error it returns, "nil" for none.
checkLogging(in) ==
    IF in.Logpath = "" THEN "log path empty"
    ELSE IF Stat(in.Logpath) THEN "nil"
    ELSE IF WriteFile(in.Logpath) THEN "nil"
    ELSE "write"

\* checkConfig, one plugin of either list: its path.
checkPath(plugin) ==
    IF plugin.Path = "" THEN "plugin path is empty"
    ELSE IF ~Stat(plugin.Path) THEN "plugin path"
    ELSE "nil"

\* checkConfig, one model plugin: its path, then its type name.
checkModel(modelP) ==
    IF checkPath(modelP) # "nil" THEN checkPath(modelP)
    ELSE IF modelP.PluginType = "" THEN "plugin type cannot be empty"
    ELSE "nil"

\* The first position of a list whose entry fails a test, 0 for none.
FirstBad(list, Bad(_)) ==
    IF \E i \in DOMAIN list : Bad(list[i])
    THEN CHOOSE i \in DOMAIN list :
             Bad(list[i]) /\ \A j \in 1..(i - 1) : ~Bad(list[j])
    ELSE 0

\* checkConfig: the error of the first check that fails.
checkConfig(in) ==
    LET BadModel(m) == checkModel(m) # "nil"
        BadDecision(d) == checkPath(d) # "nil"
        m == FirstBad(in.Modelplugins, BadModel)
        d == FirstBad(in.Decisionplugins, BadDecision)
    IN IF checkLogging(in) # "nil" THEN "invalid log path"
       ELSE IF m # 0 THEN checkModel(in.Modelplugins[m])
       ELSE IF d # 0 THEN checkPath(in.Decisionplugins[d])
       ELSE "nil"

\* The map SetConfig's loop has built from the first k entries of a list:
\* each id holds the last entry that names it.
PluginMap(list, k, Convert(_)) ==
    [id \in {list[i].ID : i \in 1..k} |->
        Convert(list[CHOOSE i \in 1..k :
                        list[i].ID = id /\ \A j \in (i + 1)..k : list[j].ID # id])]

\* SetConfig's model loop, one entry: the modelPluginConfig it stores.
ModelConfig(modelP) ==
    [ID |-> modelP.ID, Path |-> modelP.Path,
     PluginType |-> StringToPluginType(modelP.PluginType).t]

\* SetConfig's decision loop, one entry.
DecisionConfig(decisionP) == [ID |-> decisionP.ID, Path |-> decisionP.Path]

\* SetConfig on store cs when lg.StringToLogLevel returns lvl: the store
\* it leaves and the error it returns.
SetConfigOutcome(cs, in, lvl) ==
    LET BadType(m) == StringToPluginType(m.PluginType).err
        bad == FirstBad(in.Modelplugins, BadType)
        cs1 == [cs EXCEPT !.LogPath = in.Logpath, !.LogLevel = lvl.level]
    IN IF checkConfig(in) # "nil" THEN [cs |-> cs, err |-> checkConfig(in)]
       ELSE IF lvl.err THEN [cs |-> cs1, err |-> "log level"]
       ELSE IF bad # 0
       THEN [cs |-> [cs1 EXCEPT !.ModelPlugins =
                         PluginMap(in.Modelplugins, bad - 1, ModelConfig)],
             err |-> "invalid plugin type"]
       ELSE [cs |-> [cs1 EXCEPT
                       !.ModelPlugins =
                           PluginMap(in.Modelplugins, Len(in.Modelplugins), ModelConfig),
                       !.DecisionPlugins =
                           PluginMap(in.Decisionplugins, Len(in.Decisionplugins),
                                     DecisionConfig),
                       !.NatsURL = IF in.NatsURL # "" THEN in.NatsURL
                                   ELSE "localhost:4222"],
             err |-> "nil"]

\* cs.SetConfig(inConf).
SetConfig ==
    /\ \E lvl \in StringToLogLevel(inConf.Loglevel) :
          /\ config' = SetConfigOutcome(config, inConf, lvl).cs
          /\ setErr' = SetConfigOutcome(config, inConf, lvl).err
    /\ UNCHANGED <<inConf, state, nCalls, lastCall, adds, proc, pm>>

\* Lists of at most n entries drawn from a set.
ListsUpTo(S, n) == UNION {[1..k -> S] : k \in 0..n}

\* The k-th plugin of a file is named by its position.
PluginId(k) == <<"p1", "p2", "p3", "p4">>[k]
WithIds(list) == [k \in DOMAIN list |-> [ID |-> PluginId(k)] @@ list[k]]

\* Configuration files: every combination of the given log paths, level
\* names, plugin paths, segment-type names and bus URLs.
ConfigFiles(Logpaths, Loglevels, Paths, TypeTexts, Urls) ==
    {[Logpath |-> lp, Loglevel |-> ll, Modelplugins |-> WithIds(ms),
      Decisionplugins |-> WithIds(ds), NatsURL |-> u] :
        lp \in Logpaths, ll \in Loglevels,
        ms \in ListsUpTo([Path : Paths, PluginType : TypeTexts], MaxModels),
        ds \in ListsUpTo([Path : Paths], MaxDecisions), u \in Urls}

\* The file of the package's tests (validConfig), and the store after it.
ValidConfig ==
    [Logpath |-> "/dev/null", Loglevel |-> "DEBUG",
     Modelplugins |-> WithIds(<<[Path |-> "../_plugins/trivial.so",
                                 PluginType |-> "RequestHeaders"]>>),
     Decisionplugins |-> WithIds(<<[Path |-> "../_plugins/trivial.so"]>>),
     NatsURL |-> ""]
ValidStore ==
    SetConfigOutcome(NewConfigStore, ValidConfig,
                     [level |-> "DEBUG", err |-> FALSE]).cs

\* The coordinator runs on the configuration ModelPlugins; the store's own
\* variables matter where SetConfig is called.
Init ==
    /\ InitCore
    /\ config = NewConfigStore
    /\ inConf = ValidConfig
    /\ setErr = "none"

(***************************************************************************)
(* Core coordinator (wacecore.go).                                         *)
(***************************************************************************)
RoundsOf(t) == {r \in RoundIds : rounds[r].pc # "unused" /\ rounds[r].tid = t}

\* PluginManager.InitTransaction: p.results.Store(tid, new(sync.Map)).
PMInitTransaction(t) == [results EXCEPT ![t] = EmptyResults]

\* InitTransaction: a fresh transactionSync with Counter 0 replaces any
\* entry of the tid; then the plugin manager's InitTransaction.
InitTransaction(t) ==
    /\ ~panicked
    /\ nSync < MaxSync
    /\ nSync' = nSync + 1
    /\ analysisMap' = [analysisMap EXCEPT ![t] = nSync + 1]
    /\ tsCounter' = [tsCounter EXCEPT ![nSync + 1] = 0]
    /\ results' = PMInitTransaction(t)
    /\ phase' = [phase EXCEPT ![t] = "open"]
    /\ UNCHANGED <<natOK, syncModelsChannels, asyncModelsChannels, rounds,
                   nRounds, tasks, senders, requests, replies, closedSync,
                   closedAsync, check, panicked>>

\* Analyze with an empty model list as it would be if the call were added
\* to the transaction's counter before the list is looked at.
AnalyzeEmptyCounted(name, t) ==
    /\ ~panicked
    /\ analysisMap[t] # None
    /\ tsCounter' = [tsCounter EXCEPT ![analysisMap[t]] = @ + 1]
    /\ UNCHANGED <<natOK, analysisMap, nSync, results, syncModelsChannels,
                   asyncModelsChannels, rounds, nRounds, tasks, senders,
                   requests, replies, closedSync, closedAsync, check, phase,
                   panicked>>

\* Analyze with an empty model list: returns nil, nothing else.
AnalyzeEmpty(name, t) ==
    /\ ~panicked
    /\ UNCHANGED state

\* Analyze with a rejected segment name as it would be if the name were
\* resolved after addTransactionAnalysis.
AnalyzeBadSegmentCounted(name, t, models) ==
    /\ ~panicked
    /\ Len(models) > 0
    /\ StringToPluginType(name).err
    /\ analysisMap[t] # None
    /\ tsCounter' = [tsCounter EXCEPT ![analysisMap[t]] = @ + 1]
    /\ UNCHANGED <<natOK, analysisMap, nSync, results, syncModelsChannels,
                   asyncModelsChannels, rounds, nRounds, tasks, senders,
                   requests, replies, closedSync, closedAsync, check, phase,
                   panicked>>

\* Analyze with a segment name StringToPluginType rejects: returns the error.
AnalyzeBadSegment(name, t, models) ==
    /\ ~panicked
    /\ Len(models) > 0
    /\ StringToPluginType(name).err
    /\ UNCHANGED state

\* Analyze: addTransactionAnalysis (LoadOrStore of a record with Counter 1,
\* or an atomic add of 1 to the record found), then go callPlugins.
Analyze(name, t, models) ==
    /\ ~panicked
    /\ Len(models) > 0
    /\ ~StringToPluginType(name).err
    /\ nRounds < MaxRounds
    /\ IF analysisMap[t] = None
       THEN /\ nSync < MaxSync
            /\ nSync' = nSync + 1
            /\ analysisMap' = [analysisMap EXCEPT ![t] = nSync + 1]
            /\ tsCounter' = [tsCounter EXCEPT ![nSync + 1] = 1]
       ELSE /\ tsCounter' = [tsCounter EXCEPT ![analysisMap[t]] = @ + 1]
            /\ UNCHANGED <<nSync, analysisMap>>
    /\ nRounds' = nRounds + 1
    /\ rounds' = [rounds EXCEPT ![nRounds + 1] =
                     [NoRound EXCEPT !.pc = "start", !.tid = t,
                                     !.born = analysisMap'[t],
                                     !.seg = StringToPluginType(name).t,
                                     !.payload = nRounds + 1,
                                     !.models = models]]
    /\ phase' = [phase EXCEPT ![t] = IF @ = "checked" THEN "reopen"
                                     ELSE IF @ \in {"new", "closed"} THEN "stray"
                                     ELSE @]
    /\ UNCHANGED <<natOK, results, syncModelsChannels, asyncModelsChannels,
                   tasks, senders, requests, replies, closedSync, closedAsync,
                   check, panicked>>

\* Analyze up to the LoadOrStore of addTransactionAnalysis, for callers that
\* run Analyze calls side by side.  A call that stores its own record has
\* nothing left to do but launch its round; a call that loaded a record
\* goes on to its atomic add on that record.
AnalyzeLoadOrStore(name, t, models) ==
    /\ nRounds + Cardinality(adds) < MaxRounds
    /\ IF analysisMap[t] = None
       THEN Analyze(name, t, models) /\ UNCHANGED adds
       ELSE /\ ~panicked
            /\ Len(models) > 0
            /\ ~StringToPluginType(name).err
            /\ adds' = adds \cup {[value |-> analysisMap[t], tid |-> t,
                                    name |-> name, models |-> models,
                                    seen |-> tsCounter[analysisMap[t]],
                                    n |-> nRounds + Cardinality(adds) + 1]}
            /\ UNCHANGED state
    /\ UNCHANGED <<nCalls, lastCall, conf, proc, pm>>

\* The rest of such a call as it would be if the add were a store of the
\* counter the call saw at its LoadOrStore, plus one.
AnalyzeAddNotAtomic(a) ==
    /\ ~panicked
    /\ a \in adds
    /\ adds' = adds \ {a}
    /\ tsCounter' = [tsCounter EXCEPT ![a.value] = a.seen + 1]
    /\ nRounds' = nRounds + 1
    /\ rounds' = [rounds EXCEPT ![nRounds + 1] =
                     [NoRound EXCEPT !.pc = "start", !.tid = a.tid,
                                     !.born = a.value,
                                     !.seg = StringToPluginType(a.name).t,
                                     !.payload = nRounds + 1,
                                     !.models = a.models]]
    /\ phase' = [phase EXCEPT ![a.tid] = IF @ = "checked" THEN "reopen"
                                         ELSE IF @ \in {"new", "closed"} THEN "stray"
                                         ELSE @]
    /\ UNCHANGED <<natOK, analysisMap, nSync, results, syncModelsChannels,
                   asyncModelsChannels, tasks, senders, requests, replies,
                   closedSync, closedAsync, check, panicked, nCalls, lastCall,
                   conf, proc, pm>>

\* The rest of such a call: atomic.AddInt64 on the record loaded, then go
\* callPlugins.
AnalyzeAdd(a) ==
    /\ ~panicked
    /\ a \in adds
    /\ adds' = adds \ {a}
    /\ tsCounter' = [tsCounter EXCEPT ![a.value] = @ + 1]
    /\ nRounds' = nRounds + 1
    /\ rounds' = [rounds EXCEPT ![nRounds + 1] =
                     [NoRound EXCEPT !.pc = "start", !.tid = a.tid,
                                     !.born = a.value,
                                     !.seg = StringToPluginType(a.name).t,
                                     !.payload = nRounds + 1,
                                     !.models = a.models]]
    /\ phase' = [phase EXCEPT ![a.tid] = IF @ = "checked" THEN "reopen"
                                         ELSE IF @ \in {"new", "closed"} THEN "stray"
                                         ELSE @]
    /\ UNCHANGED <<natOK, analysisMap, nSync, results, syncModelsChannels,
                   asyncModelsChannels, tasks, senders, requests, replies,
                   closedSync, closedAsync, check, panicked, nCalls, lastCall,
                   conf, proc, pm>>

\* PluginManager.AddModelChannel: LoadOrStore of the transaction's map, then
\* Store of the channel under t.String().
AddModelChannel(chans, t, seg, ch) ==
    [chans EXCEPT ![t] = [present |-> TRUE,
                          ch |-> [@.ch EXCEPT ![String(seg)] = ch]]]

\* callPlugins, the test of line 88: may the model analyse segment t?
TypeGate(pluginType, t) == pluginType = t

\* The classification as it would be if the loop counted an async model
\* with the sync ones.
ClassifyAsyncCounted(id, t) ==
    IF id \notin ConfigIds THEN "unknown"
    ELSE IF ~TypeGate(ModelPlugins[id].PluginType, t) THEN "wrongtype"
    ELSE IF ModelPlugins[id].Remote \/ IsAsync(id) THEN "syncremote"
    ELSE "synclocal"

\* The classification as it would be if the loop dispatched a model of
\* another segment like one of its own.
ClassifyNoGate(id, t) ==
    IF id \notin ConfigIds THEN "unknown"
    ELSE IF IsAsync(id) THEN "async"
    ELSE IF ModelPlugins[id].Remote THEN "syncremote"
    ELSE "synclocal"

\* callPlugins, the dispatch loop's classification of one model id.
Classify(id, t) ==
    IF id \notin ConfigIds THEN "unknown"
    ELSE IF ~TypeGate(ModelPlugins[id].PluginType, t) THEN "wrongtype"
    ELSE IF IsAsync(id) THEN "async"
    ELSE IF ModelPlugins[id].Remote THEN "syncremote"
    ELSE "synclocal"

\* The positions of a model list the loop counts as sync, as async.
SyncIdx(models, t) ==
    {i \in DOMAIN models : Classify(models[i], t) \in {"syncremote", "synclocal"}}
AsyncIdx(models, t) ==
    {i \in DOMAIN models : Classify(models[i], t) = "async"}

\* The goroutines the loop starts: plugins.Process for a sync local model,
\* plugins.AddToQueue for an async or a sync remote one.
Dispatch(r, models, t) ==
    {[kind |-> IF Classify(models[i], t) = "synclocal" THEN "process" ELSE "publish",
      r |-> r, i |-> i, model |-> models[i]] : i \in SyncIdx(models, t) \cup AsyncIdx(models, t)}

\* callPlugins up to the start of its waits: the two channels are made and
\* registered (channel r of each kind belongs to round r), the loop runs,
\* the async waiter is started.
RoundStart(r) ==
    /\ ~panicked
    /\ rounds[r].pc = "start"
    /\ LET t == rounds[r].tid
           seg == rounds[r].seg
           models == rounds[r].models
       IN /\ asyncModelsChannels' = AddModelChannel(asyncModelsChannels, t, seg, r)
          /\ syncModelsChannels' = AddModelChannel(syncModelsChannels, t, seg, r)
          /\ tasks' = tasks \cup Dispatch(r, models, seg)
          /\ rounds' = [rounds EXCEPT ![r].pc = "waitSync", ![r].apc = "wait",
                          ![r].syncCounter = Cardinality(SyncIdx(models, seg)),
                          ![r].asyncCounter = Cardinality(AsyncIdx(models, seg)),
                          ![r].disp = {models[i] : i \in SyncIdx(models, seg) \cup AsyncIdx(models, seg)}]
    /\ UNCHANGED <<natOK, analysisMap, tsCounter, nSync, results, nRounds,
                   senders, requests, replies, closedSync, closedAsync, check,
                   phase, panicked>>

(***************************************************************************)
(* Plugin manager (pluginmanager): the goroutines a round starts.          *)
(***************************************************************************)
\* Process, the test of line 293: does the loaded plugin accept segment t?
ProcessTypeGate(pluginType, t) == pluginType = t

\* Process as it would be if it sent its status without storing the result.
ProcessNoStore(modelID, t, resultsPresent, ret) ==
    IF modelID \notin LoadedModels
    THEN [err |-> "notfound", prob |-> 0, store |-> FALSE]
    ELSE IF ~ProcessTypeGate(ModelPlugins[modelID].PluginType, t)
    THEN [err |-> "incompatible", prob |-> 0, store |-> FALSE]
    ELSE IF ModelPlugins[modelID].Mode = "async"
    THEN [err |-> "isasync", prob |-> 0, store |-> FALSE]
    ELSE IF ret.err
    THEN [err |-> "plugin", prob |-> 0, store |-> FALSE]
    ELSE IF ~resultsPresent
    THEN [err |-> "noresults", prob |-> 0, store |-> FALSE]
    ELSE [err |-> "nil", prob |-> ret.prob, store |-> FALSE]

\* Process as it would be if a plugin error did not keep it from the store.
ProcessStoreOnError(modelID, t, resultsPresent, ret) ==
    IF modelID \notin LoadedModels
    THEN [err |-> "notfound", prob |-> 0, store |-> FALSE]
    ELSE IF ~ProcessTypeGate(ModelPlugins[modelID].PluginType, t)
    THEN [err |-> "incompatible", prob |-> 0, store |-> FALSE]
    ELSE IF ModelPlugins[modelID].Mode = "async"
    THEN [err |-> "isasync", prob |-> 0, store |-> FALSE]
    ELSE IF ~resultsPresent
    THEN [err |-> "noresults", prob |-> 0, store |-> FALSE]
    ELSE IF ret.err
    THEN [err |-> "plugin", prob |-> 1, store |-> TRUE]
    ELSE [err |-> "nil", prob |-> ret.prob, store |-> TRUE]

\* Process as it would be if the status it sends after storing left the
\* probability out.
ProcessStatusNoProb(modelID, t, resultsPresent, ret) ==
    IF modelID \notin LoadedModels
    THEN [err |-> "notfound", prob |-> 0, store |-> FALSE]
    ELSE IF ~ProcessTypeGate(ModelPlugins[modelID].PluginType, t)
    THEN [err |-> "incompatible", prob |-> 0, store |-> FALSE]
    ELSE IF ModelPlugins[modelID].Mode = "async"
    THEN [err |-> "isasync", prob |-> 0, store |-> FALSE]
    ELSE IF ret.err
    THEN [err |-> "plugin", prob |-> 0, store |-> FALSE]
    ELSE IF ~resultsPresent
    THEN [err |-> "noresults", prob |-> 0, store |-> FALSE]
    ELSE [err |-> "nil", prob |-> 0, store |-> TRUE]

\* Process as it would be without the return for a model configured async.
ProcessRunsAsync(modelID, t, resultsPresent, ret) ==
    IF modelID \notin LoadedModels
    THEN [err |-> "notfound", prob |-> 0, store |-> FALSE]
    ELSE IF ~ProcessTypeGate(ModelPlugins[modelID].PluginType, t)
    THEN [err |-> "incompatible", prob |-> 0, store |-> FALSE]
    ELSE IF modelID \notin modelProcessFunc
    THEN [err |-> "nilfunc", prob |-> 0, store |-> FALSE]
    ELSE IF ret.err
    THEN [err |-> "plugin", prob |-> 0, store |-> FALSE]
    ELSE IF ~resultsPresent
    THEN [err |-> "noresults", prob |-> 0, store |-> FALSE]
    ELSE [err |-> "nil", prob |-> ret.prob, store |-> TRUE]

\* PluginManager.Process for a plugin whose process function would return
\* ret: the ModelStatus it sends and whether it stores the result, or
\* "nilfunc" when the registry holds no process function for the model and
\* the call of the nil function panics.
Process(modelID, t, resultsPresent, ret) ==
    IF modelID \notin LoadedModels
    THEN [err |-> "notfound", prob |-> 0, store |-> FALSE]
    ELSE IF ~ProcessTypeGate(ModelPlugins[modelID].PluginType, t)
    THEN [err |-> "incompatible", prob |-> 0, store |-> FALSE]
    ELSE IF ModelPlugins[modelID].Mode = "async"
    THEN [err |-> "isasync", prob |-> 0, store |-> FALSE]
    ELSE IF modelID \notin modelProcessFunc
    THEN [err |-> "nilfunc", prob |-> 0, store |-> FALSE]
    ELSE IF ret.err
    THEN [err |-> "plugin", prob |-> 0, store |-> FALSE]
    ELSE IF ~resultsPresent
    THEN [err |-> "noresults", prob |-> 0, store |-> FALSE]
    ELSE [err |-> "nil", prob |-> ret.prob, store |-> TRUE]

\* The store as it would be if an entry, once written, were kept.
StoreResultKeepsFirst(t, modelID, prob) ==
    IF results[t].val[modelID] # None THEN results
    ELSE [results EXCEPT ![t].val[modelID] = prob]

\* resultSyncMap.Store(modelID, res).
StoreResult(t, modelID, prob) == [results EXCEPT ![t].val[modelID] = prob]

\* A goroutine running plugins.Process up to its channel send.
ProcessRun(task, ret) ==
    /\ ~panicked
    /\ task \in tasks
    /\ task.kind = "process"
    /\ ret \in PluginReturns(rounds[task.r].payload)
    /\ LET t == rounds[task.r].tid
           o == Process(task.model, rounds[task.r].seg, results[t].present, ret)
       IN /\ results' = IF o.store THEN StoreResult(t, task.model, o.prob) ELSE results
          /\ senders' = IF o.err = "nilfunc" THEN senders
                        ELSE senders \cup
                                 {[mode |-> "sync", ch |-> task.r, model |-> task.model,
                                   prob |-> o.prob, err |-> o.err,
                                   id |-> <<task.r, task.i>>]}
          /\ panicked' = (o.err = "nilfunc")
    /\ tasks' = tasks \ {task}
    /\ UNCHANGED <<natOK, analysisMap, tsCounter, nSync, syncModelsChannels,
                   asyncModelsChannels, rounds, nRounds, requests, replies,
                   closedSync, closedAsync, check, phase>>

\* The errors of the three returns of Process that come before the call of
\* the plugin's process function.
Rejections == {"notfound", "incompatible", "isasync"}

\* A call of Process(modelID, t, payload, seg, ch) made from outside
\* callPlugins by a goroutine that then receives from ch, up to the call's
\* channel send; the plugin's process function would return ret.  Calling
\* the nil function that the registry holds for a model without a process
\* function is a run-time panic.
ProcessCall(modelID, t, seg, ch, ret) ==
    /\ ~panicked
    /\ \A s \in senders : ~(s.mode = "sync" /\ s.ch = ch)
    /\ LET o == Process(modelID, seg, results[t].present, ret)
       IN /\ results' = IF o.store THEN StoreResult(t, modelID, o.prob) ELSE results
          /\ senders' = IF o.err = "nilfunc" THEN senders
                        ELSE senders \cup
                                 {[mode |-> "sync", ch |-> ch, model |-> modelID,
                                   prob |-> o.prob, err |-> o.err, id |-> <<ch, 1>>]}
          /\ panicked' = (o.err = "nilfunc")
          /\ proc' = [n |-> 1 - proc.n, model |-> modelID, seg |-> seg, tid |-> t,
                      ch |-> ch,
                      invoked |-> o.err \notin Rejections \cup {"nilfunc"}]
    /\ UNCHANGED <<natOK, analysisMap, tsCounter, nSync, syncModelsChannels,
                   asyncModelsChannels, rounds, nRounds, tasks, requests, replies,
                   closedSync, closedAsync, check, phase, nCalls, lastCall,
                   conf, adds, pm>>

\* The caller of Process receives the status from its channel.
ProcessReceive(s) ==
    /\ ~panicked
    /\ s \in senders
    /\ s.mode = "sync"
    /\ senders' = senders \ {s}
    /\ UNCHANGED <<natOK, analysisMap, tsCounter, nSync, results,
                   syncModelsChannels, asyncModelsChannels, rounds, nRounds,
                   tasks, requests, replies, closedSync, closedAsync, check,
                   phase, panicked>>

\* New: the plugins for which a worker loop (ModelProcessHandler) and a
\* result listener (ModelResultsHandler) subscribe to the bus.
Subscribed(id) ==
    /\ natOK
    /\ ModelPlugins[id].Mode = "async" \/ ModelPlugins[id].Remote
    /\ ModelLoad[id] = "ok"

\* natConn.Publish: fails on a nil connection, may fail on a live one.
PublishResults == IF natOK THEN BOOLEAN ELSE {FALSE}

\* A goroutine running plugins.AddToQueue; the error it returns is
\* discarded by the go statement.  A message on a subject nobody
\* subscribed to is dropped by the bus.
PublishRun(task, ok) ==
    /\ ~panicked
    /\ task \in tasks
    /\ task.kind = "publish"
    /\ ok \in PublishResults
    /\ requests' = IF ok /\ Subscribed(task.model)
                   THEN requests \cup {[model |-> task.model, tid |-> rounds[task.r].tid,
                                        payload |-> rounds[task.r].payload,
                                        id |-> <<task.r, task.i>>]}
                   ELSE requests
    /\ rounds' = IF IsAsync(task.model) THEN rounds
                 ELSE IF ~ok THEN [rounds EXCEPT ![task.r].pubFailed = @ + 1]
                 ELSE IF ~Subscribed(task.model)
                 THEN [rounds EXCEPT ![task.r].noSub = @ + 1]
                 ELSE rounds
    /\ tasks' = tasks \ {task}
    /\ UNCHANGED <<natOK, analysisMap, tsCounter, nSync, results,
                   syncModelsChannels, asyncModelsChannels, nRounds, senders,
                   replies, closedSync, closedAsync, check, phase, panicked>>

\* json.Marshal of the Error field of ModelTransmitionResults: a nil error
\* is null, any other an object.
MarshalError(err) == IF err THEN "{}" ELSE "null"

\* json.Unmarshal into a field of interface type error: only null decodes.
UnmarshalFails(errorField) == errorField # "null"

\* ModelProcessHandler, one message: the plugin's process function runs
\* and its result is published on <modelId>/results.
WorkerRun(req, ret) ==
    /\ ~panicked
    /\ req \in requests
    /\ ret \in PluginReturns(req.payload)
    /\ requests' = requests \ {req}
    /\ replies' = replies \cup
           {[model |-> req.model, tid |-> req.tid, prob |-> ret.prob,
             error |-> MarshalError(ret.err), id |-> req.id]}
    /\ UNCHANGED <<natOK, analysisMap, tsCounter, nSync, results,
                   syncModelsChannels, asyncModelsChannels, rounds, nRounds,
                   tasks, senders, closedSync, closedAsync, check, phase,
                   panicked>>

\* The listener's callback as it would be if it stored the result of an
\* async model too.
DeliverStoreAsync(rep) ==
    LET mode == IF ModelPlugins[rep.model].Mode = "async" THEN "async" ELSE "sync"
        chans == IF mode = "async" THEN asyncModelsChannels ELSE syncModelsChannels
        c == chans[rep.tid].ch[String(ModelPlugins[rep.model].PluginType)]
        drop == [send |-> FALSE, mode |-> mode, ch |-> None, err |-> "nil",
                 prob |-> 0, store |-> FALSE]
    IN IF UnmarshalFails(rep.error) THEN drop
       ELSE IF ~chans[rep.tid].present THEN drop
       ELSE IF c = None THEN drop
       ELSE IF ~results[rep.tid].present
       THEN [send |-> TRUE, mode |-> mode, ch |-> c, err |-> "noresults",
             prob |-> 0, store |-> FALSE]
       ELSE [send |-> TRUE, mode |-> mode, ch |-> c, err |-> "nil",
             prob |-> rep.prob, store |-> TRUE]

\* ModelResultsHandler, one message, up to its channel send: what it sends
\* where (send = FALSE: the message is logged and dropped) and whether it
\* stores the result.
Deliver(rep) ==
    LET mode == IF ModelPlugins[rep.model].Mode = "async" THEN "async" ELSE "sync"
        chans == IF mode = "async" THEN asyncModelsChannels ELSE syncModelsChannels
        c == chans[rep.tid].ch[String(ModelPlugins[rep.model].PluginType)]
        drop == [send |-> FALSE, mode |-> mode, ch |-> None, err |-> "nil",
                 prob |-> 0, store |-> FALSE]
    IN IF UnmarshalFails(rep.error) THEN drop
       ELSE IF ~chans[rep.tid].present THEN drop
       ELSE IF c = None THEN drop
       ELSE IF mode # "async" /\ ~results[rep.tid].present
       THEN [send |-> TRUE, mode |-> mode, ch |-> c, err |-> "noresults",
             prob |-> 0, store |-> FALSE]
       ELSE [send |-> TRUE, mode |-> mode, ch |-> c, err |-> "nil",
             prob |-> rep.prob, store |-> mode # "async"]

ListenerRun(rep) ==
    /\ ~panicked
    /\ rep \in replies
    /\ replies' = replies \ {rep}
    /\ LET o == Deliver(rep)
       IN /\ results' = IF o.store THEN StoreResult(rep.tid, rep.model, o.prob)
                        ELSE results
          /\ senders' = IF o.send
                        THEN senders \cup
                               {[mode |-> o.mode, ch |-> o.ch, model |-> rep.model,
                                 prob |-> o.prob, err |-> o.err, id |-> rep.id]}
                        ELSE senders
    /\ rounds' = IF UnmarshalFails(rep.error) /\ ~IsAsync(rep.model)
                 THEN [rounds EXCEPT ![rep.id[1]].unparsed = @ + 1]
                 ELSE rounds
    /\ UNCHANGED <<natOK, analysisMap, tsCounter, nSync, syncModelsChannels,
                   asyncModelsChannels, nRounds, tasks, requests,
                   closedSync, closedAsync, check, phase, panicked>>

\* A send on a closed channel panics, whether the channel was closed before
\* the send or while the sender was blocked in it.
SendOnClosed(s) ==
    /\ ~panicked
    /\ s \in senders
    /\ s.ch \in (IF s.mode = "sync" THEN closedSync ELSE closedAsync)
    /\ panicked' = TRUE
    /\ UNCHANGED <<natOK, analysisMap, tsCounter, nSync, results,
                   syncModelsChannels, asyncModelsChannels, rounds, nRounds,
                   tasks, senders, requests, replies, closedSync, closedAsync,
                   check, phase>>

(***************************************************************************)
(* callPlugins after the dispatch loop: the sync wait, the "done" signal,  *)
(* and the async waiter goroutine.                                         *)
(***************************************************************************)
\* status := <-modelPlugStatus, from a blocked sender.
RecvSync(r, s) ==
    /\ ~panicked
    /\ rounds[r].pc = "waitSync"
    /\ rounds[r].recvd < rounds[r].syncCounter
    /\ s \in senders
    /\ s.mode = "sync" /\ s.ch = r
    /\ r \notin closedSync
    /\ senders' = senders \ {s}
    /\ rounds' = [rounds EXCEPT ![r].recvd = @ + 1,
                    ![r].okRecv = IF s.err = "nil"
                                  THEN @ \cup {<<s.model, s.prob>>} ELSE @,
                    ![r].errRecv = IF s.err # "nil"
                                   THEN @ \cup {<<s.model, s.err>>} ELSE @]
    /\ UNCHANGED <<natOK, analysisMap, tsCounter, nSync, results,
                   syncModelsChannels, asyncModelsChannels, nRounds, tasks,
                   requests, replies, closedSync, closedAsync, check, phase,
                   panicked>>

\* status := <-modelPlugStatus on a closed channel: the zero ModelStatus.
RecvSyncClosed(r) ==
    /\ ~panicked
    /\ rounds[r].pc = "waitSync"
    /\ rounds[r].recvd < rounds[r].syncCounter
    /\ r \in closedSync
    /\ rounds' = [rounds EXCEPT ![r].recvd = @ + 1]
    /\ UNCHANGED <<natOK, analysisMap, tsCounter, nSync, results,
                   syncModelsChannels, asyncModelsChannels, nRounds, tasks,
                   senders, requests, replies, closedSync, closedAsync, check,
                   phase, panicked>>

\* callPlugins returns: its locals are gone; what the async waiter captured
\* stays (the transaction id, the segment type, asyncCounter).
Returned(round, pc) ==
    [round EXCEPT !.pc = pc, !.models = <<>>, !.syncCounter = 0, !.recvd = 0,
                  !.doneCh = None]

\* The end of the sync loop as it would be if the loop ran one time less.
RoundSignalEarly(r) ==
    /\ ~panicked
    /\ rounds[r].pc = "waitSync"
    /\ rounds[r].recvd + 1 >= rounds[r].syncCounter
    /\ rounds' = IF analysisMap[rounds[r].tid] = None
                 THEN [rounds EXCEPT ![r] = Returned(@, "lost")]
                 ELSE [rounds EXCEPT ![r].pc = "sendDone",
                                     ![r].doneCh = analysisMap[rounds[r].tid]]
    /\ UNCHANGED <<natOK, analysisMap, tsCounter, nSync, results,
                   syncModelsChannels, asyncModelsChannels, nRounds, tasks,
                   senders, requests, replies, closedSync, closedAsync, check,
                   phase, panicked>>

\* After the sync loop: analysisMap.Load; without an entry the round logs
\* and returns, with one it goes on to send "done" on the entry's channel.
RoundSignal(r) ==
    /\ ~panicked
    /\ rounds[r].pc = "waitSync"
    /\ rounds[r].recvd = rounds[r].syncCounter
    /\ rounds' = IF analysisMap[rounds[r].tid] = None
                 THEN [rounds EXCEPT ![r] = Returned(@, "lost")]
                 ELSE [rounds EXCEPT ![r].pc = "sendDone",
                                     ![r].doneCh = analysisMap[rounds[r].tid]]
    /\ UNCHANGED <<natOK, analysisMap, tsCounter, nSync, results,
                   syncModelsChannels, asyncModelsChannels, nRounds, tasks,
                   senders, requests, replies, closedSync, closedAsync, check,
                   phase, panicked>>

\* The async waiter: status := <-asyncModelPlugStatus.
AsyncRecv(r, s) ==
    /\ ~panicked
    /\ rounds[r].apc = "wait"
    /\ rounds[r].arecvd < rounds[r].asyncCounter
    /\ s \in senders
    /\ s.mode = "async" /\ s.ch = r
    /\ r \notin closedAsync
    /\ senders' = senders \ {s}
    /\ rounds' = [rounds EXCEPT ![r].arecvd = @ + 1]
    /\ UNCHANGED <<natOK, analysisMap, tsCounter, nSync, results,
                   syncModelsChannels, asyncModelsChannels, nRounds, tasks,
                   requests, replies, closedSync, closedAsync, check, phase,
                   panicked>>

AsyncRecvClosed(r) ==
    /\ ~panicked
    /\ rounds[r].apc = "wait"
    /\ rounds[r].arecvd < rounds[r].asyncCounter
    /\ r \in closedAsync
    /\ rounds' = [rounds EXCEPT ![r].arecvd = @ + 1]
    /\ UNCHANGED <<natOK, analysisMap, tsCounter, nSync, results,
                   syncModelsChannels, asyncModelsChannels, nRounds, tasks,
                   senders, requests, replies, closedSync, closedAsync, check,
                   phase, panicked>>

\* RemoveAsyncModelChannel, the end: after the channel's key is deleted
\* the transaction's entry goes too when no channel remains in it.
DropIfEmpty(chans, t) ==
    IF \A n \in TypeNames : chans[t].ch[n] = None
    THEN [chans EXCEPT ![t] = NoChannels]
    ELSE chans

\* RemoveAsyncModelChannel, the two loads.  Without an entry for the
\* transaction it logs; without a channel for the segment it only counts
\* the remaining channels; with one it goes on to close it.
AsyncRemoveLoad(r) ==
    /\ ~panicked
    /\ rounds[r].apc = "wait"
    /\ rounds[r].arecvd = rounds[r].asyncCounter
    /\ LET t == rounds[r].tid
           c == asyncModelsChannels[t].ch[String(rounds[r].seg)]
       IN IF ~asyncModelsChannels[t].present
          THEN /\ rounds' = [rounds EXCEPT ![r].apc = "done"]
               /\ UNCHANGED asyncModelsChannels
          ELSE IF c = None
          THEN /\ rounds' = [rounds EXCEPT ![r].apc = "done"]
               /\ asyncModelsChannels' = DropIfEmpty(asyncModelsChannels, t)
          ELSE /\ rounds' = [rounds EXCEPT ![r].apc = "close", ![r].rmCh = c]
               /\ UNCHANGED asyncModelsChannels
    /\ UNCHANGED <<natOK, analysisMap, tsCounter, nSync, results,
                   syncModelsChannels, nRounds, tasks, senders, requests,
                   replies, closedSync, closedAsync, check, phase, panicked>>

\* RemoveAsyncModelChannel, close(ch) and after: closing a closed channel
\* panics.
AsyncRemoveClose(r) ==
    /\ ~panicked
    /\ rounds[r].apc = "close"
    /\ LET t == rounds[r].tid
           n == String(rounds[r].seg)
       IN IF rounds[r].rmCh \in closedAsync
          THEN /\ panicked' = TRUE
               /\ UNCHANGED <<rounds, asyncModelsChannels, closedAsync>>
          ELSE /\ closedAsync' = closedAsync \cup {rounds[r].rmCh}
               /\ asyncModelsChannels' =
                      DropIfEmpty([asyncModelsChannels EXCEPT ![t].ch[n] = None], t)
               /\ rounds' = [rounds EXCEPT ![r].apc = "done", ![r].rmCh = None]
               /\ UNCHANGED panicked
    /\ UNCHANGED <<natOK, analysisMap, tsCounter, nSync, results,
                   syncModelsChannels, nRounds, tasks, senders, requests,
                   replies, closedSync, check, phase>>

(***************************************************************************)
(* CheckTransaction and CloseTransaction.                                  *)
(***************************************************************************)
\* What a decision plugin's CheckResults function returns.
DecisionReturns == {[res |-> b, err |-> e] : b \in BOOLEAN, e \in {"nil", "decision"}}

\* PluginManager.CheckResult as it would be if the weight map were filled
\* from the configuration, one entry per configured model.
CheckResultAllWeights(t, d, waf, ret) ==
    IF d \notin LoadedDecisions
    THEN [invoked |-> 0, input |-> NoInput, res |-> FALSE, err |-> "nodecision"]
    ELSE IF ~results[t].present
    THEN [invoked |-> 0, input |-> NoInput, res |-> FALSE, err |-> "noresults"]
    ELSE LET keys == {m \in ConfigIds : results[t].val[m] # None}
         IN [invoked |-> 1,
             input |-> [TransactionId |-> t,
                        Results |-> [m \in keys |-> results[t].val[m]],
                        ModelWeight |-> [m \in ConfigIds |-> ModelPlugins[m].Weight],
                        WAFdata |-> waf],
             res |-> ret.res, err |-> ret.err]

\* PluginManager.CheckResult for a decision plugin that would return ret:
\* whether the plugin is invoked, with what input, and the pair returned.
CheckResult(t, d, waf, ret) ==
    IF d \notin LoadedDecisions
    THEN [invoked |-> 0, input |-> NoInput, res |-> FALSE, err |-> "nodecision"]
    ELSE IF ~results[t].present
    THEN [invoked |-> 0, input |-> NoInput, res |-> FALSE, err |-> "noresults"]
    ELSE LET keys == {m \in ConfigIds : results[t].val[m] # None}
         IN [invoked |-> 1,
             input |-> [TransactionId |-> t,
                        Results |-> [m \in keys |-> results[t].val[m]],
                        ModelWeight |-> [m \in keys |-> ModelPlugins[m].Weight],
                        WAFdata |-> waf],
             res |-> ret.res, err |-> ret.err]

\* CheckTransaction, the call, as it would be if it went on to the decision
\* plugin without a transactionSync entry.
CheckTransactionNoEntryTest(t, d, waf) ==
    /\ ~panicked
    /\ check[t].pc = "idle"
    /\ check' = [check EXCEPT ![t] =
                   IF analysisMap[t] = None
                   THEN [NoCheck EXCEPT !.pc = "returned", !.d = d, !.waf = waf,
                                        !.startN = nRounds, !.invoked = 1,
                                        !.prevN = check[t].prevN]
                   ELSE [NoCheck EXCEPT !.pc = "gate", !.d = d, !.waf = waf,
                                        !.startN = nRounds,
                                        !.sync = analysisMap[t],
                                        !.prevN = check[t].prevN]]
    /\ UNCHANGED <<natOK, analysisMap, tsCounter, nSync, results,
                   syncModelsChannels, asyncModelsChannels, rounds, nRounds,
                   tasks, senders, requests, replies, closedSync, closedAsync,
                   phase, panicked>>

\* CheckTransaction, the call: without a transactionSync entry it returns
\* (false, error); with one it enters the gate loop.
CheckTransaction(t, d, waf) ==
    /\ ~panicked
    /\ check[t].pc = "idle"
    /\ check' = [check EXCEPT ![t] =
                   IF analysisMap[t] = None
                   THEN [NoCheck EXCEPT !.pc = "returned", !.d = d, !.waf = waf,
                                        !.startN = nRounds, !.err = "unknown",
                                        !.prevN = check[t].prevN]
                   ELSE [NoCheck EXCEPT !.pc = "gate", !.d = d, !.waf = waf,
                                        !.startN = nRounds,
                                        !.sync = analysisMap[t],
                                        !.prevN = check[t].prevN]]
    /\ UNCHANGED <<natOK, analysisMap, tsCounter, nSync, results,
                   syncModelsChannels, asyncModelsChannels, rounds, nRounds,
                   tasks, senders, requests, replies, closedSync, closedAsync,
                   phase, panicked>>

\* The receive of the gate loop as it would be if all transactions shared
\* one signal channel.
CheckRecvAnyChannel(t, r) ==
    /\ ~panicked
    /\ check[t].pc = "gate"
    /\ check[t].i < tsCounter[check[t].sync]
    /\ rounds[r].pc = "sendDone"
    /\ check' = [check EXCEPT ![t].i = @ + 1]
    /\ rounds' = [rounds EXCEPT ![r] = Returned(@, "finished")]
    /\ UNCHANGED <<natOK, analysisMap, tsCounter, nSync, results,
                   syncModelsChannels, asyncModelsChannels, nRounds, tasks,
                   senders, requests, replies, closedSync, closedAsync, phase,
                   panicked>>

\* The gate loop, i < Counter: <-sync.Channel, from a round blocked sending
\* "done" on that channel.
CheckRecv(t, r) ==
    /\ ~panicked
    /\ check[t].pc = "gate"
    /\ check[t].i < tsCounter[check[t].sync]
    /\ rounds[r].pc = "sendDone"
    /\ rounds[r].doneCh = check[t].sync
    /\ check' = [check EXCEPT ![t].i = @ + 1]
    /\ rounds' = [rounds EXCEPT ![r] = Returned(@, "finished")]
    /\ UNCHANGED <<natOK, analysisMap, tsCounter, nSync, results,
                   syncModelsChannels, asyncModelsChannels, nRounds, tasks,
                   senders, requests, replies, closedSync, closedAsync, phase,
                   panicked>>

\* The end of the gate loop as it would be if it ended one receive early.
CheckExitEarly(t) ==
    /\ ~panicked
    /\ check[t].pc = "gate"
    /\ check[t].i + 1 >= tsCounter[check[t].sync]
    /\ check' = [check EXCEPT ![t].pc = "reset"]
    /\ UNCHANGED <<natOK, analysisMap, tsCounter, nSync, results,
                   syncModelsChannels, asyncModelsChannels, rounds, nRounds,
                   tasks, senders, requests, replies, closedSync, closedAsync,
                   phase, panicked>>

\* The gate loop, i >= Counter: the loop ends.
CheckExit(t) ==
    /\ ~panicked
    /\ check[t].pc = "gate"
    /\ check[t].i >= tsCounter[check[t].sync]
    /\ check' = [check EXCEPT ![t].pc = "reset"]
    /\ UNCHANGED <<natOK, analysisMap, tsCounter, nSync, results,
                   syncModelsChannels, asyncModelsChannels, rounds, nRounds,
                   tasks, senders, requests, replies, closedSync, closedAsync,
                   phase, panicked>>

\* The end of CheckTransaction as it would be without sync.Counter = 0.
CheckFinishNoReset(t, ret) ==
    /\ ~panicked
    /\ check[t].pc = "reset"
    /\ ret \in DecisionReturns
    /\ LET o == CheckResult(t, check[t].d, check[t].waf, ret)
       IN check' = [check EXCEPT ![t].pc = "returned", ![t].invoked = o.invoked,
                                 ![t].input = o.input, ![t].res = o.res,
                                 ![t].err = o.err,
                                 ![t].dret = IF o.invoked = 1 THEN ret ELSE @]
    /\ UNCHANGED <<natOK, analysisMap, tsCounter, nSync, results,
                   syncModelsChannels, asyncModelsChannels, rounds, nRounds,
                   tasks, senders, requests, replies, closedSync, closedAsync,
                   phase, panicked>>

\* The end of CheckTransaction as it would be if the results handed to the
\* decision plugin were taken out of the store.
CheckFinishClearsResults(t, ret) ==
    /\ ~panicked
    /\ check[t].pc = "reset"
    /\ ret \in DecisionReturns
    /\ tsCounter' = [tsCounter EXCEPT ![check[t].sync] = 0]
    /\ LET o == CheckResult(t, check[t].d, check[t].waf, ret)
       IN /\ check' = [check EXCEPT ![t].pc = "returned", ![t].invoked = o.invoked,
                                    ![t].input = o.input, ![t].res = o.res,
                                    ![t].err = o.err,
                                    ![t].dret = IF o.invoked = 1 THEN ret ELSE @]
          /\ results' = IF o.invoked = 1 THEN PMInitTransaction(t) ELSE results
    /\ UNCHANGED <<natOK, analysisMap, nSync, syncModelsChannels,
                   asyncModelsChannels, rounds, nRounds, tasks, senders,
                   requests, replies, closedSync, closedAsync, phase, panicked>>

\* The end of CheckTransaction as it would be if the counter of blocked
\* requests were added to whenever the result is true.
CheckFinishCountsErrors(t, ret) ==
    /\ ~panicked
    /\ check[t].pc = "reset"
    /\ ret \in DecisionReturns
    /\ tsCounter' = [tsCounter EXCEPT ![check[t].sync] = 0]
    /\ LET o == CheckResult(t, check[t].d, check[t].waf, ret)
       IN check' = [check EXCEPT ![t].pc = "returned", ![t].invoked = o.invoked,
                                 ![t].input = o.input, ![t].res = o.res,
                                 ![t].err = o.err,
                                 ![t].dret = IF o.invoked = 1 THEN ret ELSE @,
                                 ![t].added = IF o.res THEN 1 ELSE 0]
    /\ UNCHANGED <<natOK, analysisMap, nSync, results, syncModelsChannels,
                   asyncModelsChannels, rounds, nRounds, tasks, senders,
                   requests, replies, closedSync, closedAsync, phase, panicked>>

\* sync.Counter = 0, then plugins.CheckResult; with no error and a true
\* result, metric.Add(ctx, 1) on the counter of blocked requests.
CheckFinish(t, ret) ==
    /\ ~panicked
    /\ check[t].pc = "reset"
    /\ ret \in DecisionReturns
    /\ tsCounter' = [tsCounter EXCEPT ![check[t].sync] = 0]
    /\ LET o == CheckResult(t, check[t].d, check[t].waf, ret)
       IN check' = [check EXCEPT ![t].pc = "returned", ![t].invoked = o.invoked,
                                 ![t].input = o.input, ![t].res = o.res,
                                 ![t].err = o.err,
                                 ![t].dret = IF o.invoked = 1 THEN ret ELSE @,
                                 ![t].added = IF o.err = "nil" /\ o.res THEN 1 ELSE 0]
    /\ UNCHANGED <<natOK, analysisMap, nSync, results, syncModelsChannels,
                   asyncModelsChannels, rounds, nRounds, tasks, senders,
                   requests, replies, closedSync, closedAsync, phase, panicked>>

\* The call returns its pair to the caller; its locals are gone.
CheckReturn(t) ==
    /\ ~panicked
    /\ check[t].pc = "returned"
    /\ check' = [check EXCEPT ![t] = [NoCheck EXCEPT !.prevN = nRounds]]
    /\ phase' = [phase EXCEPT ![t] = IF @ \in {"open", "reopen"} THEN "checked" ELSE @]
    /\ UNCHANGED <<natOK, analysisMap, tsCounter, nSync, results,
                   syncModelsChannels, asyncModelsChannels, rounds, nRounds,
                   tasks, senders, requests, replies, closedSync, closedAsync,
                   panicked>>

\* The sync channels registered for a transaction.
SyncChannelsOf(t) == {syncModelsChannels[t].ch[n] : n \in TypeNames} \ {None}

\* CloseTransaction as it would be without analysisMap.Delete.
CloseTransactionNoDelete(t) ==
    /\ ~panicked
    /\ IF ~syncModelsChannels[t].present
       THEN UNCHANGED <<syncModelsChannels, results, closedSync, panicked>>
       ELSE /\ panicked' = (SyncChannelsOf(t) \cap closedSync # {})
            /\ closedSync' = closedSync \cup SyncChannelsOf(t)
            /\ syncModelsChannels' = [syncModelsChannels EXCEPT ![t] = NoChannels]
            /\ results' = [results EXCEPT ![t] = NoResults]
    /\ phase' = [phase EXCEPT ![t] = "closed"]
    /\ rounds' = [r \in RoundIds |->
                    IF rounds[r].tid = t
                    THEN [rounds[r] EXCEPT !.disp = {}, !.okRecv = {}, !.errRecv = {},
                                           !.pubFailed = 0, !.noSub = 0,
                                           !.unparsed = 0]
                    ELSE rounds[r]]
    /\ UNCHANGED <<natOK, analysisMap, tsCounter, nSync, asyncModelsChannels,
                   nRounds, tasks, senders, requests, replies, closedAsync,
                   check>>

\* CloseTransaction: the plugin manager's CloseTransaction, which without
\* sync channels for the tid only logs, and with them closes and deletes
\* them and deletes the tid's results; then analysisMap.Delete.
CloseTransaction(t) ==
    /\ ~panicked
    /\ IF ~syncModelsChannels[t].present
       THEN UNCHANGED <<syncModelsChannels, results, closedSync, panicked>>
       ELSE /\ panicked' = (SyncChannelsOf(t) \cap closedSync # {})
            /\ closedSync' = closedSync \cup SyncChannelsOf(t)
            /\ syncModelsChannels' = [syncModelsChannels EXCEPT ![t] = NoChannels]
            /\ results' = [results EXCEPT ![t] = NoResults]
    /\ analysisMap' = [analysisMap EXCEPT ![t] = None]
    /\ phase' = [phase EXCEPT ![t] = "closed"]
    /\ rounds' = [r \in RoundIds |->
                    IF rounds[r].tid = t
                    THEN [rounds[r] EXCEPT !.disp = {}, !.okRecv = {}, !.errRecv = {},
                                           !.pubFailed = 0, !.noSub = 0,
                                           !.unparsed = 0]
                    ELSE rounds[r]]
    /\ UNCHANGED <<natOK, tsCounter, nSync, asyncModelsChannels,
                   nRounds, tasks, senders, requests, replies, closedAsync,
                   check>>

(***************************************************************************)
(* The specifications.  The steps of the goroutines are the same in all;   *)
(* they differ in what the callers do.                                     *)
(***************************************************************************)
\* A step of the library made on its own account or by a caller that
\* keeps the order leaves the call count alone; a call of a caller that
\* keeps no order is counted, up to MaxCalls.
Uncounted(A) == A /\ UNCHANGED <<nCalls, lastCall, conf, adds, proc, pm>>
Counted(c, A) ==
    /\ nCalls < MaxCalls
    /\ nCalls' = nCalls + 1
    /\ lastCall' = c
    /\ A
    /\ UNCHANGED <<conf, adds, proc, pm>>

\* The steps of callPlugins' sync part and of CheckTransaction.
CoreSteps ==
    \/ \E r \in RoundIds : Uncounted(RoundStart(r))
    \/ \E r \in RoundIds, s \in senders : Uncounted(RecvSync(r, s))
    \/ \E r \in RoundIds : Uncounted(RoundSignal(r))
    \/ \E t \in TIDs, r \in RoundIds : Uncounted(CheckRecv(t, r))
    \/ \E t \in TIDs : Uncounted(CheckExit(t))
    \/ \E t \in TIDs, ret \in DecisionReturns : Uncounted(CheckFinish(t, ret))
    \/ \E t \in TIDs : Uncounted(CheckReturn(t))

\* The goroutines of the dispatch loop and the workers on the bus.
PluginSteps ==
    \/ \E task \in tasks : \E ret \in PluginReturns(rounds[task.r].payload) :
          Uncounted(ProcessRun(task, ret))
    \/ \E task \in tasks, ok \in PublishResults : Uncounted(PublishRun(task, ok))
    \/ \E req \in requests : \E ret \in PluginReturns(req.payload) :
          Uncounted(WorkerRun(req, ret))

\* The async waiter once its receives are over, or cut short by a close.
WaiterSteps ==
    \/ \E r \in RoundIds : Uncounted(AsyncRecvClosed(r))
    \/ \E r \in RoundIds : Uncounted(AsyncRemoveLoad(r))
    \/ \E r \in RoundIds : Uncounted(AsyncRemoveClose(r))

\* The listener's callback with all that follows a reply: its sends, the
\* receives of the async waiter.
ReplySteps ==
    \/ \E rep \in replies : Uncounted(ListenerRun(rep))
    \/ \E s \in senders : Uncounted(SendOnClosed(s))
    \/ \E r \in RoundIds, s \in senders : Uncounted(AsyncRecv(r, s))

Goroutines == CoreSteps \/ PluginSteps \/ WaiterSteps \/ ReplySteps

\* The caller keeps, per transaction id, the order InitTransaction, then
\* Analyze and CheckTransaction one call at a time, then CloseTransaction
\* once a CheckTransaction has returned with no Analyze after it.  phase
\* is "open" from InitTransaction to the first CheckTransaction's return,
\* "checked" after a return, "reopen" after an Analyze that follows one,
\* "closed" after CloseTransaction; "stray" after an Analyze that no
\* InitTransaction precedes, which a caller that keeps the order never does.
OrderInit(t) == phase[t] \in {"new", "closed"}
OrderAnalyze(t) == phase[t] \in {"open", "reopen", "checked"} /\ check[t].pc = "idle"
OrderCheck(t) == phase[t] \in {"open", "reopen", "checked"} /\ check[t].pc = "idle"
OrderClose(t) == phase[t] = "checked" /\ check[t].pc = "idle"

\* Callers that keep the order, drawing their arguments from the given sets.
OrderedCalls(Tids, Names, Lists, Decisions, Wafs) ==
    \/ \E t \in Tids : OrderInit(t) /\ Uncounted(InitTransaction(t))
    \/ \E n \in Names, t \in Tids : OrderAnalyze(t) /\ Uncounted(AnalyzeEmpty(n, t))
    \/ \E n \in Names, t \in Tids, ms \in Lists :
          OrderAnalyze(t) /\ Uncounted(AnalyzeBadSegment(n, t, ms))
    \/ \E n \in Names, t \in Tids, ms \in Lists :
          OrderAnalyze(t) /\ Uncounted(Analyze(n, t, ms))
    \/ \E t \in Tids, d \in Decisions, w \in Wafs :
          OrderCheck(t) /\ Uncounted(CheckTransaction(t, d, w))
    \/ \E t \in Tids : OrderClose(t) /\ Uncounted(CloseTransaction(t))

\* Callers that call anything at any time, MaxCalls calls in all.
FreeCalls(Tids, Names, Lists, Decisions, Wafs) ==
    \/ \E t \in Tids :
          Counted(Call("InitTransaction", t, "", <<>>), InitTransaction(t))
    \/ \E n \in Names, t \in Tids :
          Counted(Call("Analyze", t, n, <<>>), AnalyzeEmpty(n, t))
    \/ \E n \in Names, t \in Tids, ms \in Lists :
          Counted(Call("Analyze", t, n, ms), AnalyzeBadSegment(n, t, ms))
    \/ \E n \in Names, t \in Tids, ms \in Lists :
          Counted(Call("Analyze", t, n, ms), Analyze(n, t, ms))
    \/ \E t \in Tids, d \in Decisions, w \in Wafs :
          Counted(Call("CheckTransaction", t, "", <<>>), CheckTransaction(t, d, w))
    \/ \E t \in Tids :
          Counted(Call("CloseTransaction", t, "", <<>>), CloseTransaction(t))

\* One transaction whose caller keeps the order; local, async and remote
\* models on one segment.
NextOrdered ==
    \/ OrderedCalls({"t1"}, {"RequestHeaders", "Bogus"},
                    {<<"L">>, <<"A">>, <<"R">>, <<"E">>, <<"XR">>}, {"D"}, {"waf1"})
    \/ Goroutines

SpecOrdered == Init /\ [][NextOrdered]_vars

Next ==
    \/ FreeCalls({"t1"}, {"RequestHeaders", "Bogus"}, {<<"L">>, <<"A">>}, {"D"},
                 {"waf1"})
    \/ Goroutines
    \/ \E r \in RoundIds : Uncounted(RecvSyncClosed(r))

Spec == Init /\ [][Next]_vars

\* One transaction whose caller keeps the order, on a bus that delivers no
\* reply: the listener's callback never runs.  The Go scheduler runs every
\* goroutine that can take a step, so the steps of callPlugins and of
\* CheckTransaction are taken when they stay possible; nothing is assumed
\* of the plugins or of the bus.
NextNoReply ==
    \/ OrderedCalls({"t1"}, {"RequestHeaders", "Bogus"}, {<<"A">>, <<"L">>}, {"D"},
                    {"waf1"})
    \/ CoreSteps
    \/ PluginSteps
    \/ WaiterSteps

SpecNoReply == Init /\ [][NextNoReply]_vars /\ WF_vars(CoreSteps)

\* One transaction whose caller keeps the order and names, beside a local
\* and an async model of RequestHeaders, an id the configuration does not
\* hold, on the models' segment and on another.
NextSkip ==
    \/ OrderedCalls({"t1"}, {"RequestHeaders", "RequestBody", "Bogus"},
                    {<<"U", "L">>, <<"U", "A">>}, {"D"}, {"waf1"})
    \/ Goroutines

SpecSkip == Init /\ [][NextSkip]_vars

\* Callers that call InitTransaction and then CheckTransaction one call at
\* a time, and Analyze from another goroutine at any moment after
\* InitTransaction; the transaction is not closed.
OrderAnalyzeConcurrent(t) == phase[t] \in {"open", "reopen", "checked"}

ConcurrentCalls(Tids, Names, Lists, Decisions, Wafs) ==
    \/ \E t \in Tids : OrderInit(t) /\ Uncounted(InitTransaction(t))
    \/ \E n \in Names, t \in Tids :
          OrderAnalyzeConcurrent(t) /\ Uncounted(AnalyzeEmpty(n, t))
    \/ \E n \in Names, t \in Tids, ms \in Lists :
          OrderAnalyzeConcurrent(t) /\ Uncounted(AnalyzeBadSegment(n, t, ms))
    \/ \E n \in Names, t \in Tids, ms \in Lists :
          OrderAnalyzeConcurrent(t) /\ Uncounted(Analyze(n, t, ms))
    \/ \E t \in Tids, d \in Decisions, w \in Wafs :
          OrderCheck(t) /\ Uncounted(CheckTransaction(t, d, w))

\* One transaction, a local model: the goroutines are those of callPlugins,
\* Process and the async waiter, which has nothing to wait for.
NextConcurrent ==
    \/ ConcurrentCalls({"t1"}, {"RequestHeaders", "Bogus"}, {<<"L">>}, {"D"},
                       {"waf1"})
    \/ CoreSteps
    \/ \E task \in tasks : \E ret \in PluginReturns(rounds[task.r].payload) :
          Uncounted(ProcessRun(task, ret))
    \/ \E r \in RoundIds : Uncounted(AsyncRemoveLoad(r))
    \/ \E r \in RoundIds : Uncounted(AsyncRemoveClose(r))

SpecConcurrent == Init /\ [][NextConcurrent]_vars

\* Process called from outside callPlugins, with any model id, on either
\* of two segments and two channels, for a transaction that InitTransaction
\* and CloseTransaction open and close.
NextProcess ==
    \/ OrderInit("t1") /\ Uncounted(InitTransaction("t1"))
    \/ phase["t1"] = "open" /\ senders = {} /\ Uncounted(CloseTransaction("t1"))
    \/ \E m \in ConfigIds \cup {"U"}, seg \in {RequestHeaders, RequestBody},
          ch \in RoundIds, ret \in PluginReturns(1) :
          ProcessCall(m, "t1", seg, ch, ret)
    \/ \E s \in senders : Uncounted(ProcessReceive(s))

SpecProcess == Init /\ [][NextProcess]_vars

\* The plugins whose loading New is followed through, and what loading one
\* can do.
NewModels == {"L", "R", "A"}
NewDecisions == {"D"}
LoadOutcomes == {"ok", "open", "lookup", "init"}

\* New, one pass of the model plugin loop, for a plugin whose loading does
\* load.
NewModel(id, load) ==
    /\ ~pm.done
    /\ id \in NewModels \ DOMAIN pm.load
    /\ pm' = [pm EXCEPT
                 !.load = id :> load @@ @,
                 !.modelPlugins =
                     IF RegistersModel(ModelPlugins[id], load) THEN @ \cup {id} ELSE @,
                 !.modelProcessFunc =
                     IF StoresProcessFunc(ModelPlugins[id], load) THEN @ \cup {id} ELSE @]
    /\ UNCHANGED <<state, nCalls, lastCall, conf, adds, proc>>

\* New, one pass of the decision plugin loop, which follows the model loop.
NewDecision(id, load) ==
    /\ ~pm.done
    /\ NewModels \subseteq DOMAIN pm.load
    /\ id \in NewDecisions \ DOMAIN pm.load
    /\ pm' = [pm EXCEPT
                 !.load = id :> load @@ @,
                 !.decisionCheckFunc = IF RegistersDecision(load) THEN @ \cup {id} ELSE @,
                 !.decisionPlugins = IF RegistersDecision(load) THEN @ \cup {id} ELSE @]
    /\ UNCHANGED <<state, nCalls, lastCall, conf, adds, proc>>

\* New returns the manager.
NewReturn ==
    /\ ~pm.done
    /\ DOMAIN pm.load = NewModels \cup NewDecisions
    /\ pm' = [pm EXCEPT !.done = TRUE]
    /\ UNCHANGED <<state, nCalls, lastCall, conf, adds, proc>>

\* New on a configuration of one sync local, one remote and one async model
\* and one decision plugin, each of which loads or fails in any way.
NextNew ==
    \/ \E id \in NewModels, load \in LoadOutcomes : NewModel(id, load)
    \/ \E id \in NewDecisions, load \in LoadOutcomes : NewDecision(id, load)
    \/ NewReturn

SpecNew == Init /\ [][NextNew]_vars

\* A caller that keeps the order but for CloseTransaction, which it may call
\* at any time after InitTransaction, rounds in flight or not, and after
\* which it calls nothing.
OrderCloseEarly(t) == phase[t] \in {"open", "reopen", "checked"} /\ check[t].pc = "idle"

NextCloseEarly ==
    \/ phase["t1"] = "new" /\ Uncounted(InitTransaction("t1"))
    \/ \E ms \in {<<"L">>, <<"A">>} :
          OrderAnalyze("t1") /\ Uncounted(Analyze("RequestHeaders", "t1", ms))
    \/ OrderCheck("t1") /\ Uncounted(CheckTransaction("t1", "D", "waf1"))
    \/ OrderCloseEarly("t1") /\ Uncounted(CloseTransaction("t1"))
    \/ Goroutines
    \/ \E r \in RoundIds : Uncounted(RecvSyncClosed(r))

SpecCloseEarly == Init /\ [][NextCloseEarly]_vars

\* Two transactions of callers that keep the order: the first is opened
\* once, analysed with a remote sync model, checked once and closed; the
\* second is opened and analysed with a local model while the first runs.
NextTwo ==
    \/ \E t \in TIDs : phase[t] = "new" /\ Uncounted(InitTransaction(t))
    \/ \E t \in TIDs :
          /\ phase[t] = "open" /\ check[t].pc = "idle"
          /\ Uncounted(Analyze("RequestHeaders", t,
                                IF t = "t1" THEN <<"R">> ELSE <<"L">>))
    \/ /\ phase["t1"] = "open" /\ check["t1"].pc = "idle"
       /\ Uncounted(CheckTransaction("t1", "D", "waf1"))
    \/ OrderClose("t1") /\ Uncounted(CloseTransaction("t1"))
    \/ CoreSteps
    \/ PluginSteps
    \/ \E rep \in replies : Uncounted(ListenerRun(rep))
    \/ \E r \in RoundIds : Uncounted(AsyncRemoveLoad(r))
    \/ \E r \in RoundIds : Uncounted(AsyncRemoveClose(r))

SpecTwo == Init /\ [][NextTwo]_vars

\* The same caller, which may also call CloseTransaction on a transaction
\* it has not opened or has closed already.
NextCloseTwice ==
    \/ NextCloseEarly
    \/ /\ phase["t1"] \in {"new", "closed"}
       /\ Counted(Call("CloseTransaction", "t1", "", <<>>), CloseTransaction("t1"))

SpecCloseTwice == Init /\ [][NextCloseTwice]_vars

\* One transaction whose caller keeps the order and passes either set of
\* WAF data.  After InitTransaction or an Analyze its CheckTransaction
\* names a decision plugin that is not loaded; once a call has returned and
\* no Analyze has followed, it names that one or the loaded one.
NextUnloaded ==
    \/ OrderInit("t1") /\ Uncounted(InitTransaction("t1"))
    \/ \E ms \in {<<"L">>, <<"R">>} :
          OrderAnalyze("t1") /\ Uncounted(Analyze("RequestHeaders", "t1", ms))
    \/ \E w \in WafParams :
          OrderCheck("t1") /\ Uncounted(CheckTransaction("t1", "DX", w))
    \/ \E w \in WafParams :
          /\ OrderCheck("t1") /\ phase["t1"] = "checked"
          /\ Uncounted(CheckTransaction("t1", "D", w))
    \/ OrderClose("t1") /\ Uncounted(CloseTransaction("t1"))
    \/ CoreSteps
    \/ PluginSteps
    \/ \E rep \in replies : Uncounted(ListenerRun(rep))
    \/ \E r \in RoundIds : Uncounted(AsyncRemoveLoad(r))
    \/ \E r \in RoundIds : Uncounted(AsyncRemoveClose(r))

SpecUnloaded == Init /\ [][NextUnloaded]_vars

\* SetConfig called, any number of times, with one configuration file on a
\* store that is new or holds the configuration of an earlier call.
InitConfig ==
    /\ InitCore
    /\ config \in {NewConfigStore, ValidStore}
    /\ inConf \in ConfigFiles({"", "/dev/null", "./wace.log", "/usr/wace.log", "/etc/passwd"},
                              {"ERROR", "DEBUG", "INVALIDLOGLEVEL"},
                              {"", "../_plugins/trivial.so", "../_plugins/nonexistent.so"},
                              {"", "RequestBody", "InvalidPluginType"},
                              {"", "nats:4222"})
    /\ setErr = "none"

NextConfig == SetConfig

SpecConfig == InitConfig /\ [][NextConfig]_vars

\* SetConfig called on a new store with a file that has no defect but,
\* possibly, in the segment-type names of its models.
InitTypes ==
    /\ InitCore
    /\ config = NewConfigStore
    /\ inConf \in ConfigFiles({"/dev/null"}, {"ERROR"}, {"../_plugins/trivial.so"},
                              {"RequestHeaders", "RequestBody", "AllRequest",
                               "ResponseHeaders", "ResponseBody", "AllResponse",
                               "Everything", "InvalidPluginType", "requestheaders",
                               "Request"},
                              {""})
    /\ setErr = "none"

SpecTypes == InitTypes /\ [][NextConfig]_vars

\* One transaction whose caller keeps the order; a round has a sync local
\* and a sync remote model, or one model the loop does not dispatch.  No
\* async model: the async waiter has nothing to wait for.
NextPair ==
    \/ OrderedCalls({"t1"}, {"RequestHeaders", "Bogus"}, {<<"L", "R">>, <<"E">>},
                    {"D"}, {"waf1"})
    \/ CoreSteps
    \/ PluginSteps
    \/ \E rep \in replies : Uncounted(ListenerRun(rep))
    \/ \E r \in RoundIds : Uncounted(AsyncRemoveLoad(r))
    \/ \E r \in RoundIds : Uncounted(AsyncRemoveClose(r))

SpecPair == Init /\ [][NextPair]_vars

\* Analyze calls run side by side on one transaction, initialised before
\* the first of them or not at all; a local model.
NextAdds ==
    \/ nRounds + Cardinality(adds) = 0 /\ OrderInit("t1")
          /\ Uncounted(InitTransaction("t1"))
    \/ \E n \in {"RequestHeaders", "RequestBody"} :
          AnalyzeLoadOrStore(n, "t1", <<"L">>)
    \/ \E a \in adds : AnalyzeAdd(a)
    \/ \E r \in RoundIds : Uncounted(RoundStart(r))
    \/ \E task \in tasks : \E ret \in PluginReturns(rounds[task.r].payload) :
          Uncounted(ProcessRun(task, ret))
    \/ \E r \in RoundIds, s \in senders : Uncounted(RecvSync(r, s))
    \/ \E r \in RoundIds : Uncounted(RoundSignal(r))
    \/ \E r \in RoundIds : Uncounted(AsyncRemoveLoad(r))
    \/ \E r \in RoundIds : Uncounted(AsyncRemoveClose(r))

SpecAdds == Init /\ [][NextAdds]_vars

(***************************************************************************)
(* Properties.                                                             *)
(***************************************************************************)

\* The rounds of the transaction a CheckTransaction call is working on:
\* those launched by an Analyze on the transactionSync object it loaded.
LifeRounds(t) ==
    {r \in RoundIds : rounds[r].tid = t /\ rounds[r].born = check[t].sync}

\* A CheckTransaction call that found its transaction and has its result.
Decided(t) == check[t].pc = "returned" /\ check[t].err # "unknown"

\* Nothing the goroutines could still do; the round waits for a sync status.
Quiet == ~panicked /\ ~ENABLED Goroutines
Waiting(r) == rounds[r].pc = "waitSync" /\ rounds[r].recvd < rounds[r].syncCounter

\* C1: when the caller keeps the order, a CheckTransaction call invokes the
\* decision plugin once, and at that moment every round launched before the
\* call has handed over its "done".
C1_DecisionAfterRounds ==
    \A t \in TIDs :
        Decided(t) =>
            /\ check[t].d \in LoadedDecisions => check[t].invoked = 1
            /\ check[t].invoked = 1 =>
                  \A r \in LifeRounds(t) :
                      r <= check[t].startN => rounds[r].pc = "finished"

C1_Witness ==
    \E t \in TIDs :
        /\ Decided(t) /\ check[t].invoked = 1
        /\ Cardinality(LifeRounds(t)) = 2
        /\ \E r \in LifeRounds(t) : rounds[r].okRecv # {}

\* C2: when the caller keeps the order, the DecisionInput of a call holds,
\* for every sync model whose status without error a round of the
\* transaction received, a result of that model with the configured weight,
\* and the caller's WAF data; a sync model a round dispatched is missing
\* from it only if a status with an error was received for that model; and
\* a status without error is never waiting to be sent while the store lacks
\* the model's result.
C2_InputHoldsSyncResults ==
    /\ \A t \in TIDs :
          Decided(t) /\ check[t].invoked = 1 =>
              /\ check[t].input.TransactionId = t
              /\ check[t].input.WAFdata = check[t].waf
              /\ \A r \in LifeRounds(t) : \A mp \in rounds[r].okRecv :
                    /\ mp[1] \in DOMAIN check[t].input.Results
                    /\ check[t].input.Results[mp[1]] \in
                          {q[2] : q \in {x \in UNION {rounds[k].okRecv : k \in LifeRounds(t)} :
                                           x[1] = mp[1]}}
                    /\ check[t].input.ModelWeight[mp[1]] = ModelPlugins[mp[1]].Weight
              /\ \A r \in LifeRounds(t) : \A m \in rounds[r].disp :
                    ~IsAsync(m) =>
                        \/ m \in DOMAIN check[t].input.Results
                        \/ \E k \in LifeRounds(t) : \E x \in rounds[k].errRecv : x[1] = m
    /\ \A s \in senders :
          s.mode = "sync" /\ s.err = "nil" =>
              results[rounds[s.id[1]].tid].val[s.model] # None

C2_Witness ==
    \E t \in TIDs :
        /\ Decided(t) /\ check[t].invoked = 1
        /\ DOMAIN check[t].input.Results = {"L", "R"}

\* C3: a model of type Everything is dispatched by Analyze on every
\* segment, and Process does not reject it as incompatible on any.
C3_EverythingEligible ==
    \A r \in RoundIds :
        rounds[r].pc \in {"waitSync", "sendDone"} =>
            \A i \in DOMAIN rounds[r].models :
                LET m == rounds[r].models[i]
                IN m \in ConfigIds /\ ModelPlugins[m].PluginType = Everything =>
                      /\ m \in rounds[r].disp
                      /\ Process(m, rounds[r].seg, TRUE,
                                 [prob |-> 1, err |-> FALSE]).err # "incompatible"

\* C4: after InitTransaction, k Analyze calls and the first
\* CheckTransaction, the call has received k "done", the counter is 0 and
\* no round is blocked sending "done".
C4_GateConsumesAll ==
    \A t \in TIDs :
        Decided(t) /\ phase[t] = "open" =>
            /\ check[t].i = Cardinality(LifeRounds(t))
            /\ tsCounter[check[t].sync] = 0
            /\ \A r \in LifeRounds(t) : rounds[r].pc = "finished"

C4_Witness ==
    \E t \in TIDs : Decided(t) /\ phase[t] = "open" /\ check[t].i = 2

\* C5: once CloseTransaction(t) has returned, no map holds anything under t.
C5_CloseLeavesNothing ==
    \A t \in TIDs :
        phase[t] = "closed" =>
            /\ analysisMap[t] = None
            /\ ~results[t].present
            /\ ~syncModelsChannels[t].present
            /\ ~asyncModelsChannels[t].present

\* C6: when the caller keeps the order, every plugin invocation has
\* returned and every published request was answered, no CheckTransaction
\* is left waiting for a round that waits for a status.
C6_CheckReturns ==
    Quiet /\ (\A r \in RoundIds : rounds[r].pubFailed = 0 /\ rounds[r].noSub = 0
                                  /\ rounds[r].unparsed = 0)
        => \A t \in TIDs :
              check[t].pc = "gate" => \A r \in RoundsOf(t) : ~Waiting(r)

\* A sync local model the round dispatched whose status carried the
\* plugin's error.
Errored(r, m) == m \in rounds[r].disp /\ <<m, "plugin">> \in rounds[r].errRecv

\* C7: when a sync local plugin returns an error, nothing of that invocation
\* reaches the store, CheckTransaction still returns what the decision
\* plugin returned, and if no round of the transaction received a status
\* without error the decision plugin is given an empty result set.
C7_PluginErrorSkipped ==
    \A t \in TIDs :
        Decided(t) /\ check[t].d \in LoadedDecisions
        /\ (\E r \in LifeRounds(t) : \E m \in ConfigIds : Errored(r, m)) =>
            /\ check[t].invoked = 1
            /\ check[t].res = check[t].dret.res
            /\ check[t].err = check[t].dret.err
            /\ \A r \in LifeRounds(t) : \A m \in DOMAIN check[t].input.Results :
                  Errored(r, m) => check[t].input.Results[m] # rounds[r].payload
            /\ (\A r \in LifeRounds(t) : rounds[r].okRecv = {})
                  => DOMAIN check[t].input.Results = {}

C7_Witness ==
    \E t \in TIDs :
        /\ Decided(t) /\ check[t].invoked = 1
        /\ LifeRounds(t) = {1}
        /\ Errored(1, "L")
        /\ DOMAIN check[t].input.Results = {}
        /\ check[t].res /\ check[t].err = "nil"

\* C8: when the publish of a dispatched model's request fails, the round
\* does not stay waiting for that model's status, so CheckTransaction is
\* not left waiting for the round.
C8_PublishFailureSkipped ==
    Quiet =>
        \A t \in TIDs :
            check[t].pc = "gate" =>
                \A r \in RoundsOf(t) :
                    rounds[r].pubFailed > 0 /\ rounds[r].noSub = 0
                    /\ rounds[r].unparsed = 0 => ~Waiting(r)

\* C9: once nothing is left to run, a round that dispatched a model the
\* configuration names but construction skipped has received a status with
\* the not-found error for it.
C9_SkippedModelNotFound ==
    Quiet =>
        \A r \in RoundIds : \A m \in rounds[r].disp :
            m \in ConfigIds \ LoadedModels /\ rounds[r].pubFailed = 0
                => <<m, "notfound">> \in rounds[r].errRecv

\* A round called with async models only.
AsyncOnly(r) ==
    /\ rounds[r].models # <<>>
    /\ \A i \in DOMAIN rounds[r].models :
          rounds[r].models[i] \in ConfigIds /\ IsAsync(rounds[r].models[i])

\* A CheckTransaction call at its gate, every unfinished round of the
\* transaction called with async models only.
GateOnAsyncOnly(t) ==
    /\ check[t].pc = "gate"
    /\ ~panicked
    /\ \A r \in RoundsOf(t) :
          \/ rounds[r].pc \in {"start", "waitSync", "sendDone"} /\ AsyncOnly(r)
          \/ rounds[r].pc \in {"finished", "lost"}
             /\ (rounds[r].apc = "done" \/ rounds[r].asyncCounter > 0)

\* C10: on a bus that delivers no reply, a CheckTransaction call whose
\* unfinished rounds were called with async models only returns.
C10_AsyncDoesNotGate ==
    \A t \in TIDs : GateOnAsyncOnly(t) ~> (check[t].pc = "returned")

C10_Witness ==
    \E t \in TIDs :
        /\ Decided(t) /\ check[t].invoked = 1
        /\ \E r \in LifeRounds(t) :
              /\ "A" \in rounds[r].disp
              /\ rounds[r].apc = "wait" /\ rounds[r].arecvd = 0

\* C11: in every state the result store, and the DecisionInput of every
\* CheckTransaction call, holds no entry for a model whose mode is async.
C11_NoAsyncResult ==
    \A t \in TIDs :
        /\ \A m \in ConfigIds : IsAsync(m) => results[t].val[m] = None
        /\ \A m \in DOMAIN check[t].input.Results : ~IsAsync(m)

C11_Witness ==
    \E t \in TIDs :
        /\ check[t].pc = "returned" /\ check[t].invoked = 1
        /\ results[t].present
        /\ \E r \in RoundIds :
              rounds[r].tid = t /\ rounds[r].asyncCounter = 1 /\ rounds[r].arecvd = 1

\* A status the listener's callback is sending: the listener serves the
\* async and the remote models.
FromListener(s) == IsAsync(s.model) \/ ModelPlugins[s.model].Remote

\* C12: the listener's callback is never sending on a closed channel.
C12_ListenerNeverOnClosed ==
    \A s \in senders :
        FromListener(s) =>
            s.ch \notin (IF s.mode = "sync" THEN closedSync ELSE closedAsync)

\* C20: no async waiter is about to close a channel that is closed already,
\* and once CloseTransaction has returned and nothing is left to run both
\* channels of every round of the transaction are closed.
C20_ClosedExactlyOnce ==
    /\ \A r \in RoundIds :
          rounds[r].apc = "close" => rounds[r].rmCh \notin closedAsync
    /\ \A t \in TIDs :
          phase[t] = "closed" /\ Quiet =>
              \A r \in RoundsOf(t) : r \in closedSync /\ r \in closedAsync

\* An id the dispatch loop is to skip on segment t: the configuration does
\* not hold it, or holds it for another segment.
Skipped(id, t) ==
    \/ id \notin ConfigIds
    \/ ModelPlugins[id].PluginType \notin {t, Everything}

\* The positions of a round's model list that are not to be skipped.
EligibleIdx(r) ==
    {i \in DOMAIN rounds[r].models : ~Skipped(rounds[r].models[i], rounds[r].seg)}

\* C13: while a round's callPlugins runs past its dispatch loop, no goroutine,
\* status or bus message exists for a skipped position of its list, its two
\* counters add up to the positions not skipped, the store holds a result of
\* its payload only for a model at such a position, and a round with no such
\* position goes straight to its one "done"; no round ends without it.
C13_IneligibleSkipped ==
    \A r \in RoundIds :
        /\ rounds[r].pc # "lost"
        /\ rounds[r].pc \in {"waitSync", "sendDone"} =>
              LET ms == rounds[r].models
                  bad == (DOMAIN ms) \ EligibleIdx(r)
              IN /\ \A i \in bad :
                        /\ \A k \in tasks : <<k.r, k.i>> # <<r, i>>
                        /\ \A x \in senders \cup requests \cup replies : x.id # <<r, i>>
                        /\ ms[i] \notin rounds[r].disp
                 /\ rounds[r].syncCounter + rounds[r].asyncCounter
                        = Cardinality(EligibleIdx(r))
                 /\ \A m \in ConfigIds :
                        results[rounds[r].tid].val[m] = rounds[r].payload =>
                            \E i \in EligibleIdx(r) : ms[i] = m
                 /\ (EligibleIdx(r) = {} /\ rounds[r].pc = "waitSync" /\ ~panicked) =>
                        ENABLED RoundSignal(r)

\* A round whose list held two ids, none eligible, is sending its "done".
C13_Witness ==
    \E r \in RoundIds :
        /\ rounds[r].pc = "sendDone"
        /\ Len(rounds[r].models) = 2
        /\ EligibleIdx(r) = {}
        /\ rounds[r].syncCounter = 0 /\ rounds[r].asyncCounter = 0

\* A step in which a caller that keeps no order makes the call lastCall'.
Called == nCalls' # nCalls

\* C14: an Analyze call with an empty model list changes nothing of the
\* library's state: no counter, no transactionSync entry, no channel, no
\* round, whatever its segment name and transaction id.
C14_EmptyAnalyzeChangesNothing ==
    [][(Called /\ lastCall'.op = "Analyze" /\ lastCall'.models = <<>>)
          => UNCHANGED state]_vars

\* An initialised transaction whose counter is still 0 after an Analyze
\* call with an empty list and a segment name that is none of the seven.
C14_Witness ==
    /\ lastCall = Call("Analyze", "t1", "Bogus", <<>>)
    /\ nCalls = 2
    /\ analysisMap["t1"] # None
    /\ tsCounter[analysisMap["t1"]] = 0
    /\ nRounds = 0
    /\ ~syncModelsChannels["t1"].present /\ ~asyncModelsChannels["t1"].present

\* C15: a CheckTransaction call on a transaction id without transactionSync
\* entry returns at once false and an error, the decision plugin not
\* invoked, and changes nothing of the library's state.
C15_UnknownCheckReturnsError ==
    [][(Called /\ lastCall'.op = "CheckTransaction"
             /\ analysisMap[lastCall'.tid] = None)
          => /\ check'[lastCall'.tid].pc = "returned"
             /\ ~check'[lastCall'.tid].res
             /\ check'[lastCall'.tid].err = "unknown"
             /\ check'[lastCall'.tid].invoked = 0
             /\ \A t \in TIDs \ {lastCall'.tid} : check'[t] = check[t]
             /\ UNCHANGED <<natOK, analysisMap, tsCounter, nSync, results,
                            syncModelsChannels, asyncModelsChannels, rounds,
                            nRounds, tasks, senders, requests, replies,
                            closedSync, closedAsync, phase, panicked>>]_vars

\* A CheckTransaction call on a closed transaction has returned its error.
C15_Witness ==
    /\ lastCall.op = "CheckTransaction"
    /\ phase[lastCall.tid] = "closed"
    /\ check[lastCall.tid].pc = "returned"
    /\ check[lastCall.tid].err = "unknown"
    /\ analysisMap[lastCall.tid] = None

\* C16: an Analyze call with a non-empty model list and a segment name that
\* StringToPluginType rejects changes nothing of the library's state: no
\* counter, no channel map, no result, no round.
C16_BadSegmentChangesNothing ==
    [][(Called /\ lastCall'.op = "Analyze" /\ lastCall'.models # <<>>
             /\ StringToPluginType(lastCall'.name).err)
          => UNCHANGED state]_vars

\* An initialised transaction whose counter is still 0 after an Analyze
\* call with a model and a segment name that is none of the seven.
C16_Witness ==
    /\ lastCall = Call("Analyze", "t1", "Bogus", <<"L">>)
    /\ nCalls = 2
    /\ analysisMap["t1"] # None
    /\ tsCounter[analysisMap["t1"]] = 0
    /\ nRounds = 0
    /\ results["t1"] = EmptyResults

Live(t) == phase[t] \in {"open", "reopen", "checked"}

\* C19, as stated: a transaction id has a transactionSync entry exactly when
\* InitTransaction was called for it and CloseTransaction not since.
C19_EntryIffInitNotClosed ==
    \A t \in TIDs : analysisMap[t] # None <=> Live(t)

\* C19: a transaction id has a transactionSync entry exactly when
\* InitTransaction, or Analyze with a model list that is not empty and a
\* segment name that is one of the seven, was called for it and
\* CloseTransaction not since.
C19_EntryIffOpenedNotClosed ==
    \A t \in TIDs : analysisMap[t] # None <=> (Live(t) \/ phase[t] = "stray")

\* An entry with Counter 1 that an Analyze call made for a transaction id
\* that had none, its round launched.
C19_Witness ==
    \E t \in TIDs :
        /\ phase[t] = "stray"
        /\ lastCall = Call("Analyze", t, "RequestHeaders", <<"L">>)
        /\ nCalls = 3
        /\ analysisMap[t] # None
        /\ tsCounter[analysisMap[t]] = 1
        /\ RoundsOf(t) # {}

\* A CheckTransaction call in progress that follows an earlier one of the
\* same transaction, and the rounds that have not handed over their "done".
Repeated(t) == phase[t] \in {"checked", "reopen"} /\ check[t].pc # "idle"
Unfinished(t) ==
    {r \in LifeRounds(t) : rounds[r].pc \in {"start", "waitSync", "sendDone"}}

\* C17: a CheckTransaction call that follows an earlier one still has to
\* receive exactly as many "done" as rounds are unfinished, which are rounds
\* launched after the earlier call returned; with no Analyze in between its
\* counter is 0 and it can leave the gate at once; and its decision plugin is
\* given a result for every sync model from which any round of the
\* transaction, before or after the earlier call, received a status without
\* error.
C17_RepeatedCheck ==
    \A t \in TIDs :
        Repeated(t) =>
            /\ check[t].pc = "gate" =>
                  /\ tsCounter[check[t].sync] - check[t].i
                        = Cardinality(Unfinished(t))
                  /\ \A r \in Unfinished(t) : r > check[t].prevN
                  /\ phase[t] = "checked" =>
                        /\ tsCounter[check[t].sync] = 0
                        /\ panicked \/ ENABLED CheckExit(t)
            /\ Decided(t) /\ check[t].invoked = 1 =>
                  \A r \in LifeRounds(t) : \A mp \in rounds[r].okRecv :
                      mp[1] \in DOMAIN check[t].input.Results

\* The second call of a transaction, made after a second Analyze, has its
\* decision: it received one "done" and its plugin was given the results of
\* the round before the first call and of the round after it.
C17_Witness ==
    \E t \in TIDs :
        /\ Repeated(t) /\ phase[t] = "reopen"
        /\ Decided(t) /\ check[t].invoked = 1
        /\ check[t].i = 1
        /\ rounds[1].okRecv = {<<"L", 1>>}
        /\ rounds[2].okRecv = {<<"R", 2>>}
        /\ check[t].input.Results = [m \in {"L", "R"} |-> IF m = "L" THEN 1 ELSE 2]

\* The rounds launched on the transaction's current transactionSync whose
\* "done" no CheckTransaction has received.
Undrained(t) ==
    {r \in RoundIds : /\ rounds[r].tid = t
                      /\ rounds[r].born = analysisMap[t]
                      /\ rounds[r].pc \in {"start", "waitSync", "sendDone"}}

\* C21: with Analyze called while CheckTransaction runs, whenever no
\* CheckTransaction of a transaction is in progress its counter is the number
\* of its rounds whose "done" was not received.
C21_GateLosesNoRound ==
    \A t \in TIDs :
        check[t].pc = "idle" /\ analysisMap[t] # None =>
            tsCounter[analysisMap[t]] = Cardinality(Undrained(t))

\* C22: a SetConfig call that returns an error leaves every field of the
\* store as it was.
C22_ErrorLeavesStore ==
    [][setErr' \notin {"none", "nil"} => config' = config]_vars

\* The defects of a configuration file: a log path that is empty or that
\* the process cannot write, a plugin path that is empty or does not exist,
\* a segment-type name that is empty or none of the seven, a level name the
\* logging library does not know.
BadLogPath(in) == in.Logpath = "" \/ ~WriteFile(in.Logpath)
BadPluginPath(in) ==
    \/ \E i \in DOMAIN in.Modelplugins :
          in.Modelplugins[i].Path = "" \/ ~Stat(in.Modelplugins[i].Path)
    \/ \E i \in DOMAIN in.Decisionplugins :
          in.Decisionplugins[i].Path = "" \/ ~Stat(in.Decisionplugins[i].Path)
BadTypeName(in) ==
    \E i \in DOMAIN in.Modelplugins : in.Modelplugins[i].PluginType \notin TypeNames
BadLogLevel(in) == in.Loglevel \notin LogLevels
Defective(in) ==
    BadLogPath(in) \/ BadPluginPath(in) \/ BadTypeName(in) \/ BadLogLevel(in)

\* C23: SetConfig has returned an error exactly if the file has a defect,
\* and after a call without error every model of the file is in the store
\* under its id with the segment type the file names.
C23_ValidationRejects ==
    setErr # "none" =>
        /\ setErr # "nil" <=> Defective(inConf)
        /\ setErr = "nil" =>
              \A i \in DOMAIN inConf.Modelplugins :
                  LET m == inConf.Modelplugins[i]
                  IN /\ m.ID \in DOMAIN config.ModelPlugins
                     /\ String(config.ModelPlugins[m.ID].PluginType) = m.PluginType

\* The seven names of a segment type.
SevenNames ==
    {"RequestHeaders", "RequestBody", "AllRequest", "ResponseHeaders",
     "ResponseBody", "AllResponse", "Everything"}

\* C24: once SetConfig has converted the segment-type names of a file,
\* each of the seven names among them converts without error to a type
\* whose String is that name, every other name converts with an error, each
\* type in the store converts back from its String without error, and the
\* call returned an error exactly if the file held another name.
C24_NamesRoundTrip ==
    setErr # "none" =>
        /\ \A i \in DOMAIN inConf.Modelplugins :
              LET n == inConf.Modelplugins[i].PluginType
                  r == StringToPluginType(n)
              IN IF n \in SevenNames
                 THEN ~r.err /\ r.t \in PluginTypes /\ String(r.t) = n
                 ELSE r.err
        /\ \A id \in DOMAIN config.ModelPlugins :
              LET t == config.ModelPlugins[id].PluginType
              IN /\ t \in PluginTypes
                 /\ StringToPluginType(String(t)) = [t |-> t, err |-> FALSE]
        /\ setErr = "nil" <=>
              \A i \in DOMAIN inConf.Modelplugins :
                  inConf.Modelplugins[i].PluginType \in SevenNames

\* A file with the names AllResponse and Everything was loaded.
C24_Witness ==
    /\ setErr = "nil"
    /\ DOMAIN config.ModelPlugins = {"p1", "p2"}
    /\ config.ModelPlugins["p1"].PluginType = AllResponse
    /\ inConf.Modelplugins[1].PluginType = "AllResponse"
    /\ config.ModelPlugins["p2"].PluginType = Everything
    /\ inConf.Modelplugins[2].PluginType = "Everything"

\* The positions of a round's list that hold a sync model of the
\* configuration for the round's segment.
SyncDispatched(r) ==
    {i \in DOMAIN rounds[r].models :
        LET m == rounds[r].models[i]
        IN /\ m \in ConfigIds
           /\ ModelPlugins[m].PluginType = rounds[r].seg
           /\ ModelPlugins[m].Mode # "async"}

\* C25: a round starts to send "done" only from its sync loop, when it has
\* received as many statuses as its list holds sync models of its segment;
\* while it sends, these numbers stay; and once "done" is handed over, or
\* the round has returned without one, it never sends again.
C25_OneDoneAfterAll ==
    [][\A r \in RoundIds :
          /\ (rounds'[r].pc = "sendDone" /\ rounds[r].pc # "sendDone") =>
                /\ rounds[r].pc = "waitSync"
                /\ rounds[r].recvd = rounds[r].syncCounter
                /\ rounds[r].syncCounter = Cardinality(SyncDispatched(r))
          /\ rounds[r].pc = "sendDone" =>
                /\ rounds'[r].pc \in {"sendDone", "finished"}
                /\ rounds[r].recvd = Cardinality(SyncDispatched(r))
          /\ rounds[r].pc \in {"finished", "lost"} => rounds'[r].pc = rounds[r].pc
          /\ \A t \in TIDs :
                check'[t].i > check[t].i =>
                    /\ check'[t].i = check[t].i + 1
                    /\ Cardinality({q \in RoundIds : rounds[q].pc = "sendDone"
                                        /\ rounds'[q].pc = "finished"}) = 1]_vars

\* A round of two sync models has handed over its "done" after the
\* statuses of both, one of them an error, and a round of no dispatched
\* model sends its own.
C25_Witness ==
    /\ rounds[1].pc = "finished"
    /\ rounds[1].disp = {"L", "R"}
    /\ rounds[1].okRecv = {<<"R", 1>>}
    /\ rounds[1].errRecv = {<<"L", "plugin">>}
    /\ rounds[2].pc = "sendDone"
    /\ rounds[2].models = <<"E">>
    /\ rounds[2].syncCounter = 0

\* C26: with Analyze calls run side by side, a transaction has an entry as
\* soon as InitTransaction or the LoadOrStore of a call has run; the entry's
\* counter is the number of calls that have finished addTransactionAnalysis,
\* so n when all n have; every round was counted on that one entry and sends
\* its "done" on its channel; and no other record is ever counted on.
C26_ConcurrentAnalyzeCounts ==
    \A t \in TIDs :
        /\ (RoundsOf(t) # {} \/ \E a \in adds : a.tid = t) => analysisMap[t] # None
        /\ analysisMap[t] # None =>
              /\ tsCounter[analysisMap[t]] = Cardinality(RoundsOf(t))
              /\ \A r \in RoundsOf(t) :
                    /\ rounds[r].born = analysisMap[t]
                    /\ rounds[r].pc = "sendDone" => rounds[r].doneCh = analysisMap[t]
              /\ \A x \in SyncIds \ {analysisMap[t]} : tsCounter[x] = 0

\* Two calls on a transaction never initialised have both finished: the
\* entry the first created has counter 2 and both rounds send on it.
C26_Witness ==
    /\ phase["t1"] = "stray"
    /\ adds = {}
    /\ nRounds = 2
    /\ tsCounter[analysisMap["t1"]] = 2
    /\ rounds[1].pc = "sendDone" /\ rounds[2].pc = "sendDone"
    /\ rounds[1].doneCh = rounds[2].doneCh

\* The statuses a step put on the channels.
Sent == senders' \ senders

\* C27: every call of Process sends exactly one ModelStatus on the channel it
\* was given, whichever of its six returns it takes: the call adds one
\* status, for its model, on its channel, with one of the six outcomes.
C27_OneStatusPerCall ==
    [][proc' # proc =>
          /\ Cardinality(Sent) = 1
          /\ senders \subseteq senders'
          /\ \A s \in Sent : /\ s.mode = "sync"
                              /\ s.ch = proc'.ch
                              /\ s.model = proc'.model
                              /\ s.err \in Rejections \cup {"plugin", "noresults", "nil"}]_vars

\* A call for a loaded model whose plugin failed has sent its one status
\* while the status of a call for an unknown model waits on the other
\* channel.
C27_Witness ==
    /\ proc.model = "L"
    /\ \E s \in senders : s.ch = proc.ch /\ s.model = "L" /\ s.err = "plugin"
    /\ \E s \in senders : s.ch # proc.ch /\ s.model = "U" /\ s.err = "notfound"
    /\ Cardinality(senders) = 2

\* Process is called for a model that is not loaded, on a segment other than
\* the one the model accepts, or for a model configured async.
Rejected(modelID, seg) ==
    IF modelID \notin LoadedModels THEN TRUE
    ELSE ModelPlugins[modelID].PluginType # seg \/ IsAsync(modelID)

\* C28: a call that Process rejects does not call the plugin's process
\* function, leaves the result store as it was, and sends a status that
\* carries an error.
C28_RejectionRunsNothing ==
    [][proc' # proc /\ Rejected(proc'.model, proc'.seg) =>
          /\ ~proc'.invoked
          /\ results' = results
          /\ Sent # {}
          /\ \A s \in Sent : s.err # "nil"]_vars

\* A call for the loaded async model, on the segment it accepts and with
\* the result store present, was answered with the async error.
C28_Witness ==
    /\ proc.model = "A" /\ proc.seg = RequestHeaders
    /\ results["t1"].present
    /\ ~proc.invoked
    /\ \E s \in senders : s.ch = proc.ch /\ s.model = "A" /\ s.err = "isasync"


\* C29: after New, a model or decision plugin whose init function returned
\* an error is in no registry, whether it is a sync local model, an async
\* or remote model or a decision plugin, and every plugin that loaded is
\* in its registries.
C29_InitErrorSkipped ==
    pm.done =>
        \A id \in DOMAIN pm.load :
            /\ pm.load[id] = "init" =>
                   id \notin pm.modelPlugins \cup pm.modelProcessFunc
                              \cup pm.decisionPlugins \cup pm.decisionCheckFunc
            /\ pm.load[id] = "ok" =>
                   id \in pm.modelPlugins \cup pm.decisionPlugins


\* The step is round r's call of RemoveAsyncModelChannel returning without
\* having found an entry for its transaction.
RemoveFoundNothing(r) ==
    /\ rounds[r].apc = "wait" /\ rounds'[r].apc = "done"
    /\ ~asyncModelsChannels[rounds[r].tid].present

\* The step is round r's call of RemoveAsyncModelChannel closing the
\* channel it loaded and returning.
RemoveCloses(r) == rounds[r].apc = "close" /\ rounds'[r].apc = "done"

\* C30: a call RemoveAsyncModelChannel(tid, S) that closes a channel closes
\* the one registered at (tid, S) and leaves no channel registered there;
\* after it tid has an async entry exactly when a channel of another
\* segment is registered; a call on a tid without an async entry changes
\* neither the registry nor any channel.
C30_RemoveClosesRegistered ==
    [][\A r \in RoundIds :
          LET t == rounds[r].tid
              n == String(rounds[r].seg)
          IN /\ RemoveCloses(r) =>
                    /\ asyncModelsChannels[t].ch[n] = rounds[r].rmCh
                    /\ closedAsync' = closedAsync \cup {rounds[r].rmCh}
                    /\ asyncModelsChannels'[t].ch[n] = None
                    /\ asyncModelsChannels'[t].present <=>
                           \E m \in TypeNames \ {n} :
                               asyncModelsChannels[t].ch[m] # None
                    /\ \A u \in TIDs \ {t} :
                           asyncModelsChannels'[u] = asyncModelsChannels[u]
             /\ RemoveFoundNothing(r) =>
                    /\ asyncModelsChannels' = asyncModelsChannels
                    /\ closedAsync' = closedAsync]_vars


\* A CheckTransaction call on t has its pair ready to return.
Returning(t) == check[t].pc = "returned"

\* C31: a CheckTransaction call adds to the blocked-request counter exactly
\* once when the decision plugin's result is true and never when it is
\* false, and returns the decision plugin's pair unchanged.
C31_BlockedCountedWhenTrue ==
    \A t \in TIDs :
        Returning(t) /\ check[t].invoked = 1 =>
            /\ check[t].added = (IF check[t].dret.res THEN 1 ELSE 0)
            /\ check[t].res = check[t].dret.res
            /\ check[t].err = check[t].dret.err

\* C31, amended: the call adds to the counter exactly once when the decision
\* plugin returns true with no error, and never otherwise, whether the
\* plugin returned false, returned an error or was not called; when the
\* plugin was called the pair returned is the plugin's.
C31_BlockedCountedWhenTrueNoError ==
    \A t \in TIDs :
        Returning(t) =>
            /\ check[t].added =
                   (IF check[t].invoked = 1 /\ check[t].dret.res
                       /\ check[t].dret.err = "nil" THEN 1 ELSE 0)
            /\ check[t].invoked = 1 =>
                   /\ check[t].res = check[t].dret.res
                   /\ check[t].err = check[t].dret.err
            /\ check[t].invoked = 0 => ~check[t].res /\ check[t].err # "nil"

\* A call whose decision plugin returned (true, nil) has added once and is
\* about to return (true, nil).
C31_Witness ==
    \E t \in TIDs :
        /\ Returning(t) /\ check[t].invoked = 1
        /\ check[t].dret = [res |-> TRUE, err |-> "nil"]
        /\ check[t].added = 1
        /\ check[t].res /\ check[t].err = "nil"


\* The statuses a step sent for a result it has stored: a sync model's
\* status without error, from Process or from the results listener.
Writes == {s \in Sent : s.mode = "sync" /\ s.err = "nil"}

\* C32: the result store holds one value per (tid, model); every successful
\* write leaves it equal to the value written, whatever was there, nothing
\* else changes it while the transaction's store lives, and a write leaves
\* the entries of the other models and of the other transactions as they
\* were.
C32_LastWriteWins ==
    [][/\ \A s \in Writes :
             LET t == rounds[s.id[1]].tid
             IN /\ results'[t].val[s.model] = s.prob
                /\ \A m \in ConfigIds \ {s.model} :
                       results'[t].val[m] = results[t].val[m]
                /\ \A u \in TIDs \ {t} : results'[u] = results[u]
       /\ \A t \in TIDs, m \in ConfigIds :
             /\ results[t].present /\ results'[t].present
             /\ results'[t].val[m] # results[t].val[m]
             => \E s \in Writes : s.model = m /\ rounds[s.id[1]].tid = t]_vars

\* Both rounds dispatched the same sync model, both statuses were received
\* without error, and the store holds the value of the first round, which
\* wrote last.
C32_Witness ==
    /\ rounds[1].tid = "t1" /\ rounds[2].tid = "t1"
    /\ <<"L", 1>> \in rounds[1].okRecv /\ <<"L", 2>> \in rounds[2].okRecv
    /\ results["t1"].val["L"] = 1


\* C33: a status is sent on the channel of the round whose dispatch it
\* answers, so that of two rounds of a transaction on one segment type
\* neither is sent a status meant for the other.
C33_ReplyToOwnRound == \A s \in senders : s.ch = s.id[1]


\* A round blocked sending "done" whose channel some CheckTransaction call
\* can still receive from: the transactionSync is in analysisMap, or a call
\* in its gate loop holds it.
Receivable(r) ==
    \/ analysisMap[rounds[r].tid] = rounds[r].doneCh
    \/ \E t \in TIDs : check[t].pc = "gate" /\ check[t].sync = rounds[r].doneCh

\* Round r and its async waiter have both returned.
Over(r) ==
    /\ rounds[r].pc \in {"finished", "lost"}
    /\ rounds[r].apc = "done"

\* C34: a round is never blocked sending "done" on a channel that no call
\* can receive from any more, also when CloseTransaction ran while the
\* round was in flight; and once a round of a closed transaction is over,
\* no map holds anything under its tid.
C34_RoundsEndAfterClose ==
    \A r \in RoundIds :
        /\ rounds[r].pc = "sendDone" => Receivable(r)
        /\ Over(r) /\ phase[rounds[r].tid] = "closed" =>
               /\ analysisMap[rounds[r].tid] = None
               /\ ~results[rounds[r].tid].present
               /\ ~syncModelsChannels[rounds[r].tid].present
               /\ ~asyncModelsChannels[rounds[r].tid].present


\* What the library holds under a transaction id: the transactionSync (its
\* signal channel and counter), the result store and the channel maps.
Held(t) ==
    <<analysisMap[t],
      IF analysisMap[t] = None THEN 0 ELSE tsCounter[analysisMap[t]],
      results[t], syncModelsChannels[t], asyncModelsChannels[t]>>

\* The transactions a step works for: that of the call made or advanced,
\* of the round that moved, of the task that ran, of the request or reply
\* taken from the bus, and of the dispatch whose status was received.
Actors ==
    {t \in TIDs : check'[t] # check[t] \/ phase'[t] # phase[t]}
    \cup {rounds'[r].tid : r \in {q \in RoundIds : rounds'[q] # rounds[q]}}
    \cup {rounds[x.r].tid : x \in tasks \ tasks'}
    \cup {x.tid : x \in (requests \ requests') \cup (replies \ replies')}
    \cup {rounds[s.id[1]].tid : s \in senders \ senders'}

\* C35: every step works for one transaction and changes what the library
\* holds under no other: InitTransaction, Analyze, CheckTransaction,
\* CloseTransaction, the rounds and the listener's deliveries for one tid
\* leave the other tid's counter, signal channel, result store and channel
\* maps alone, and a CheckTransaction call receives no "done" of a round
\* of another transaction.
C35_OtherTransactionUntouched ==
    [][/\ Cardinality(Actors) <= 1
       /\ \A u \in TIDs : Held(u)' # Held(u) => u \in Actors]_vars

\* The first transaction's call has received the "done" of its own round
\* and has its result, while the round of the second, its result stored,
\* is still blocked sending its "done".
C35_Witness ==
    /\ Decided("t1") /\ check["t1"].i = 1
    /\ \E r \in RoundIds :
          /\ rounds[r].tid = "t2" /\ rounds[r].pc = "sendDone"
          /\ results["t2"].val["L"] = rounds[r].payload
    /\ tsCounter[analysisMap["t2"]] = 1


\* The step is a CloseTransaction call on a transaction that was never
\* opened or was closed by an earlier call.
ClosesClosed ==
    /\ Called
    /\ lastCall'.op = "CloseTransaction"
    /\ phase[lastCall'.tid] \in {"new", "closed"}

\* C36: a CloseTransaction call on a transaction id that is unknown or
\* already closed changes nothing the library holds and closes no channel.
C36_CloseClosedChangesNothing ==
    [][ClosesClosed =>
          UNCHANGED <<analysisMap, tsCounter, results, syncModelsChannels,
                      asyncModelsChannels, closedSync, closedAsync, panicked>>]_vars

\* C37: in every DecisionInput that CheckResult builds, ModelWeight and
\* Results have the same model ids, each weight is the configured weight
\* of its model, and TransactionId and WAFdata are the arguments of the
\* CheckTransaction call.
C37_InputMapsAgree ==
    \A t \in TIDs :
        Returning(t) /\ check[t].invoked = 1 =>
            LET input == check[t].input
            IN /\ DOMAIN input.ModelWeight = DOMAIN input.Results
               /\ \A m \in DOMAIN input.ModelWeight :
                     /\ m \in ConfigIds
                     /\ input.ModelWeight[m] = ModelPlugins[m].Weight
               /\ input.TransactionId = t
               /\ input.WAFdata = check[t].waf

\* The decision plugin was handed the results of a local and of a remote
\* model and the second set of WAF data.
C37_Witness ==
    /\ Returning("t1") /\ check["t1"].invoked = 1
    /\ DOMAIN check["t1"].input.Results = {"L", "R"}
    /\ check["t1"].input.WAFdata = "waf2"

\* The step is the end of a CheckTransaction call that named a decision
\* plugin that is not loaded.
EndsUnloaded(t) ==
    /\ check[t].pc = "reset"
    /\ check'[t].pc = "returned"
    /\ check[t].d \notin LoadedDecisions

\* From the return of a CheckTransaction call to the next Analyze or
\* CloseTransaction of the transaction.
AfterReturn(t) ==
    /\ phase[t] = "checked" \/ Returning(t)
    /\ phase'[t] = "checked"

\* C38: a CheckTransaction call that names a decision plugin that is not
\* loaded returns (false, error) without calling a plugin, after it has
\* received the "done" of every round started before it; it leaves the
\* counter at 0 and the result store as it was.  Until the next Analyze the
\* counter stays 0 and the store unchanged, so a following call that names
\* a loaded plugin has nothing to receive in its gate loop and hands the
\* plugin the results the store held when the first call returned.
C38_UnloadedDrainsGate ==
    [][\A t \in TIDs :
          /\ EndsUnloaded(t) =>
                /\ ~check'[t].res
                /\ check'[t].err = "nodecision"
                /\ check'[t].invoked = 0
                /\ check[t].i = tsCounter[check[t].sync]
                /\ \A r \in LifeRounds(t) :
                      r <= check[t].startN => rounds[r].pc = "finished"
                /\ tsCounter'[check[t].sync] = 0
                /\ results' = results
          /\ AfterReturn(t) =>
                /\ results'[t] = results[t]
                /\ tsCounter'[analysisMap'[t]] = 0
                /\ check'[t].pc = "gate" => check'[t].i >= tsCounter'[check'[t].sync]
                /\ check'[t].pc = "returned" /\ check'[t].invoked = 1 =>
                      /\ check'[t].i = 0
                      /\ \A m \in ConfigIds :
                            IF results[t].val[m] = None
                            THEN m \notin DOMAIN check'[t].input.Results
                            ELSE /\ m \in DOMAIN check'[t].input.Results
                                 /\ check'[t].input.Results[m] = results[t].val[m]]_vars

\* A call that names the loaded plugin has returned the plugin's answer on
\* the result of the remote model without receiving a "done": that of the
\* round was received by the call before it, which named the plugin that
\* is not loaded.
C38_Witness ==
    /\ Returning("t1") /\ check["t1"].d = "D" /\ check["t1"].invoked = 1
    /\ check["t1"].i = 0
    /\ DOMAIN check["t1"].input.Results = {"R"}
    /\ \E r \in LifeRounds("t1") : rounds[r].pc = "finished"

====
